---------------------------- MODULE Spec2Model ----------------------------
(***************************************************************************)
(* A model of the proglang tree-walking interpreter: the recursive-descent *)
(* parser (Parser.ts), the environment chain (Interpreter.ts) and the      *)
(* asynchronous evaluator (Expression.ts, Statement.ts, Value.ts).         *)
(***************************************************************************)
EXTENDS Integers, Sequences, FiniteSets, TLC

(***************************************************************************)
(* Bounds of the model.                                                    *)
(***************************************************************************)
\* longest free token stream handed to the statement parser
MaxStmtLen == 4
\* longest free token run between the parentheses of a call / parameter list
MaxListLen == 3
\* longest free segment run of an import path
MaxPathLen == 3

(***************************************************************************)
(* Tokens (lexer.ts: Token).  keyword is "" when the lexer sets none.      *)
(***************************************************************************)
Tok(type, lexeme) == [type |-> type, lexeme |-> lexeme, keyword |-> ""]
Kw(word) == [type |-> "KEYWORD", lexeme |-> word, keyword |-> word]
Id(lexeme) == Tok("IDENTIFIER", lexeme)
Num(lexeme) == Tok("NUMBER", lexeme)
Str(lexeme) == Tok("STRING", lexeme)
SEMICOLON == Tok("SEMICOLON", ";")
ASSIGN == Tok("ASSIGN", "=")
DOT == Tok("DOT", ".")
COMMA == Tok("COMMA", ",")
LPAREN == Tok("LPAREN", "(")
RPAREN == Tok("RPAREN", ")")
LBRACE == Tok("LBRACE", "{")
RBRACE == Tok("RBRACE", "}")
LBRACKET == Tok("LBRACKET", "[")
RBRACKET == Tok("RBRACKET", "]")
PLUS == Tok("PLUS", "+")
MINUS == Tok("MINUS", "-")
STAR == Tok("STAR", "*")
SLASH == Tok("SLASH", "/")
PERCENT == Tok("PERCENT", "%")

accessModifiers == {"public", "private", "protected", "package-private"}
isAccessModifier(keyword) == keyword \in accessModifiers

(***************************************************************************)
(* Numbers.  A NumberValue holds a double; the model holds the exact       *)
(* rational [num, den] (den > 0, lowest terms), which both sides of every  *)
(* comparison below compute with the same operations in the same order.    *)
(***************************************************************************)
Abs(n) == IF n < 0 THEN -n ELSE n

RECURSIVE Gcd(_, _)
Gcd(a, b) == IF b = 0 THEN a ELSE Gcd(b, a % b)

Rat(n, d) ==
  LET g == Gcd(Abs(n), Abs(d))
      s == IF d < 0 THEN -1 ELSE 1
  IN  IF g = 0 THEN [num |-> 0, den |-> 0]
      ELSE [num |-> s * (n \div g), den |-> s * (d \div g)]

\* the integer part of n/d rounded towards zero (d > 0)
Trunc(n, d) == IF n >= 0 THEN n \div d ELSE -((-n) \div d)

\* parseFloat of a NUMBER lexeme; the lexer writes "<digits>." for an integer
parseFloat(lexeme) ==
  CASE lexeme = "1." -> Rat(1, 1)
    [] lexeme = "2." -> Rat(2, 1)
    [] lexeme = "3." -> Rat(3, 1)
    [] lexeme = "4." -> Rat(4, 1)
    [] lexeme = "5." -> Rat(5, 1)
    [] lexeme = "8." -> Rat(8, 1)
    [] lexeme = "0.5" -> Rat(1, 2)
    [] OTHER -> Rat(0, 1)

(***************************************************************************)
(* Runtime values (Value.ts), as far as the parser builds them.            *)
(***************************************************************************)
StringValue(s) == [tag |-> "String", str |-> s]
NumberValue(q) == [tag |-> "Number", num |-> q.num, den |-> q.den]
NullValue == [tag |-> "Null"]

(***************************************************************************)
(* AST nodes (Expression.ts, Statement.ts).                                *)
(***************************************************************************)
NoExpression == [type |-> "none"]
IdentifierExpression(identifier) ==
  [type |-> "Identifier", identifier |-> identifier]
AssignmentExpression(left, right) ==
  [type |-> "Assignment", left |-> left, right |-> right]
BinaryExpression(left, right, operator) ==
  [type |-> "Binary", left |-> left, right |-> right, operator |-> operator]
DotAccessExpression(identifier, parentExpr) ==
  [type |-> "DotAccess", identifier |-> identifier, parentExpr |-> parentExpr]
MethodCallExpression(method, args) ==
  [type |-> "MethodCall", method |-> method, args |-> args]
LiteralExpression(value) == [type |-> "Literal", value |-> value]

ImportStatement(path) == [type |-> "Import", path |-> path]
ClassDeclarationStatement(name, methods) ==
  [type |-> "ClassDeclaration", name |-> name, methods |-> methods]
ExpressionStatement(expression) ==
  [type |-> "ExpressionStatement", expression |-> expression]
VariableDeclarationStatement(vtype, name, value) ==
  [type |-> "VariableDeclaration", vtype |-> vtype, name |-> name,
   value |-> value]
ExecuteMainStatement == [type |-> "ExecuteMain"]
MethodDeclaration(accessModifier, isStatic, returnType, name, parameters, body) ==
  [accessModifier |-> accessModifier, isStatic |-> isStatic,
   returnType |-> returnType, name |-> name, parameters |-> parameters,
   body |-> body]

(***************************************************************************)
(* The parser (Parser.ts).  Every parse function takes the token list and  *)
(* currentTokenIndex (0-based, as in the code) and yields                  *)
(*   [ok, idx, node]: ok = FALSE is a thrown Error, idx the value of       *)
(* currentTokenIndex when the function returns or throws.                  *)
(***************************************************************************)
Returned(idx, node) == [ok |-> TRUE, idx |-> idx, node |-> node]
Thrown(idx, message) ==
  [ok |-> FALSE, idx |-> idx, node |-> [type |-> "Error", message |-> message]]

\* this.tokens[i]
TokenAt(tokens, i) == tokens[i + 1]
AtEnd(tokens, i) == i >= Len(tokens)

\* expect(...type): reading tokens[i] past the end is a TypeError
expect(tokens, i, types) ==
  IF AtEnd(tokens, i) THEN Thrown(i, "TypeError")
  ELSE IF TokenAt(tokens, i).type \in types
       THEN Returned(i + 1, TokenAt(tokens, i))
       ELSE Thrown(i, "Expected")

\* isNext(type): [ok, idx, node |-> BOOLEAN]; throws at the end of the tokens
isNext(tokens, i, type) ==
  IF AtEnd(tokens, i) THEN Thrown(i, "Unexpected end of file")
  ELSE Returned(i, [type |-> "Bool", is |-> TokenAt(tokens, i).type = type])

\* isNext(t1) || isNext(t2) || ...
isNextAny(tokens, i, types) ==
  IF AtEnd(tokens, i) THEN Thrown(i, "Unexpected end of file")
  ELSE Returned(i, [type |-> "Bool", is |-> TokenAt(tokens, i).type \in types])

\* parseType: the while loop over "[" "]" pairs
RECURSIVE parseTypeDims(_, _, _, _)
parseTypeDims(tokens, i, base, dim) ==
  LET n == isNext(tokens, i, "LBRACKET") IN
  IF ~n.ok THEN n
  ELSE IF ~n.node.is THEN Returned(i, [base |-> base, dim |-> dim])
  ELSE LET r == expect(tokens, i + 1, {"RBRACKET"}) IN
       IF ~r.ok THEN r ELSE parseTypeDims(tokens, r.idx, base, dim + 1)

\* a type that may be absent: nothing is consumed when no identifier comes next
parseType_Optional(tokens, i) ==
  IF AtEnd(tokens, i) \/ TokenAt(tokens, i).type # "IDENTIFIER"
  THEN Returned(i, [base |-> [type |-> "IDENTIFIER", lexeme |-> "Object", keyword |-> ""],
                    dim |-> 0])
  ELSE parseTypeDims(tokens, i + 1, TokenAt(tokens, i), 0)

parseType(tokens, i) ==
  LET base == expect(tokens, i, {"IDENTIFIER"}) IN
  IF ~base.ok THEN base ELSE parseTypeDims(tokens, base.idx, base.node, 0)

\* a call followed by the code after it: a thrown Error skips that code
Then(result, rest(_)) == IF result.ok THEN rest(result) ELSE result

\* the node isNext(type) returned TRUE
Is(result) == result.node.is

RECURSIVE parseExpression(_, _)
RECURSIVE parseTermLoop(_, _, _)
RECURSIVE parseFactor(_, _)
RECURSIVE parseFactorLoop(_, _, _)
RECURSIVE parseExpressionEndpoint(_, _)
RECURSIVE parseAssignmentExpression(_, _)
RECURSIVE parseIdentifierStack(_, _)
RECURSIVE parseCallLoop(_, _, _)
RECURSIVE parseArgumentListLoop(_, _, _)
RECURSIVE parseDotAccessExpression(_, _, _)

\* parseLiteralExpression
parseLiteralExpression(tokens, i) ==
  LET s == isNext(tokens, i, "STRING") IN
  IF ~s.ok THEN s
  ELSE IF Is(s)
  THEN LET t == expect(tokens, i, {"STRING"}) IN
       Returned(t.idx, LiteralExpression(StringValue(t.node.lexeme)))
  ELSE IF TokenAt(tokens, i).type = "NUMBER"
  THEN LET t == expect(tokens, i, {"NUMBER"}) IN
       Returned(t.idx, LiteralExpression(NumberValue(parseFloat(t.node.lexeme))))
  ELSE Thrown(i, "Was not able to build literal")

\* parseDotAccessExpression(parentExpression)
parseDotAccessExpression(tokens, i, parentExpression) ==
  LET d == expect(tokens, i, {"DOT"}) IN
  IF ~d.ok THEN d
  ELSE LET identifier == expect(tokens, d.idx, {"IDENTIFIER"}) IN
  IF ~identifier.ok THEN identifier
  ELSE LET dotAccessExpression ==
             DotAccessExpression(identifier.node, parentExpression)
           n == isNext(tokens, identifier.idx, "DOT") IN
  IF ~n.ok THEN n
  ELSE IF Is(n)
       THEN parseDotAccessExpression(tokens, identifier.idx, dotAccessExpression)
       ELSE Returned(identifier.idx, dotAccessExpression)

\* parseArgumentList: what follows argList.push(expression) in the loop
parseArgumentListNext(tokens, i, pushed) ==
  LET c == isNext(tokens, i, "COMMA") IN
  IF ~c.ok THEN c
  ELSE IF Is(c) THEN parseArgumentListLoop(tokens, i + 1, pushed)
  ELSE IF TokenAt(tokens, i).type = "RPAREN"
       THEN Returned(i, [type |-> "Args", list |-> pushed])
  ELSE parseArgumentListLoop(tokens, i, pushed)

\* parseArgumentList: the while (true) loop, argList holding what was pushed
parseArgumentListLoop(tokens, i, argList) ==
  Then(parseExpression(tokens, i),
       LAMBDA expression :
         parseArgumentListNext(tokens, expression.idx,
                               Append(argList, expression.node)))

parseArgumentList(tokens, i) == parseArgumentListLoop(tokens, i, <<>>)

\* parseIdentifierStack: expect("RPAREN") and the MethodCallExpression built
parseCallClose(tokens, expression, args) ==
  LET close == expect(tokens, args.idx, {"RPAREN"}) IN
  IF ~close.ok THEN close
  ELSE parseCallLoop(tokens, close.idx,
                     MethodCallExpression(expression, args.node.list))

\* parseIdentifierStack: the while (isNext("LPAREN")) loop
parseCallLoop(tokens, i, expression) ==
  LET l == isNext(tokens, i, "LPAREN") IN
  IF ~l.ok THEN l
  ELSE IF ~Is(l) THEN Returned(i, expression)
  ELSE LET r == isNext(tokens, i + 1, "RPAREN") IN
  IF ~r.ok THEN r
  ELSE Then(IF Is(r) THEN Returned(i + 1, [type |-> "Args", list |-> <<>>])
            ELSE parseArgumentList(tokens, i + 1),
            LAMBDA args : parseCallClose(tokens, expression, args))

parseIdentifierStack(tokens, i) ==
  LET identifier == expect(tokens, i, {"IDENTIFIER"}) IN
  IF ~identifier.ok THEN identifier
  ELSE LET d == isNext(tokens, identifier.idx, "DOT") IN
  IF ~d.ok THEN d
  ELSE Then(IF Is(d)
            THEN parseDotAccessExpression(tokens, identifier.idx,
                                          IdentifierExpression(identifier.node))
            ELSE Returned(identifier.idx, IdentifierExpression(identifier.node)),
            LAMBDA expression : parseCallLoop(tokens, expression.idx, expression.node))

\* parseNewExpression
parseNewExpression(tokens, i) == parseIdentifierStack(tokens, i + 1)

\* parseAssignmentExpression: what follows parseIdentifierStack()
parseAssignmentRight(tokens, left) ==
  LET a == isNext(tokens, left.idx, "ASSIGN") IN
  IF ~a.ok THEN a
  ELSE IF ~Is(a) THEN left
  ELSE Then(parseExpression(tokens, left.idx + 1),
            LAMBDA right :
              Returned(right.idx, AssignmentExpression(left.node, right.node)))

parseAssignmentExpression(tokens, i) ==
  Then(parseIdentifierStack(tokens, i),
       LAMBDA left : parseAssignmentRight(tokens, left))

parseExpressionEndpoint(tokens, i) ==
  IF AtEnd(tokens, i) THEN Thrown(i, "Unexpected end of file")
  ELSE IF TokenAt(tokens, i).type = "IDENTIFIER"
       THEN parseAssignmentExpression(tokens, i)
  ELSE IF TokenAt(tokens, i).type \in {"STRING", "NUMBER"}
       THEN parseLiteralExpression(tokens, i)
  ELSE IF TokenAt(tokens, i).type = "KEYWORD" /\ TokenAt(tokens, i).keyword = "new"
       THEN parseNewExpression(tokens, i)
  ELSE Thrown(i, "Was unable to build expression")

\* parseFactor: the while loop over * / %
parseFactorLoop(tokens, i, expression) ==
  LET n == isNextAny(tokens, i, {"STAR", "SLASH", "PERCENT"}) IN
  IF ~n.ok THEN n
  ELSE IF ~Is(n) THEN Returned(i, expression)
  ELSE LET operator == expect(tokens, i, {"STAR", "SLASH", "PERCENT"}) IN
       Then(parseExpressionEndpoint(tokens, operator.idx),
            LAMBDA right :
              parseFactorLoop(tokens, right.idx,
                BinaryExpression(expression, right.node, operator.node.type)))

parseFactor(tokens, i) ==
  Then(parseExpressionEndpoint(tokens, i),
       LAMBDA expression : parseFactorLoop(tokens, expression.idx, expression.node))

\* a parseTerm that takes everything after a + or - as its right operand
parseTermLoop_RightAssociative(tokens, i, expression) ==
  LET n == isNextAny(tokens, i, {"PLUS", "MINUS"}) IN
  IF ~n.ok THEN n
  ELSE IF ~Is(n) THEN Returned(i, expression)
  ELSE LET operator == expect(tokens, i, {"PLUS", "MINUS"}) IN
       Then(parseExpression(tokens, operator.idx),
            LAMBDA right :
              Returned(right.idx,
                BinaryExpression(expression, right.node, operator.node.type)))

\* parseTerm: the while loop over + -
parseTermLoop(tokens, i, expression) ==
  LET n == isNextAny(tokens, i, {"PLUS", "MINUS"}) IN
  IF ~n.ok THEN n
  ELSE IF ~Is(n) THEN Returned(i, expression)
  ELSE LET operator == expect(tokens, i, {"PLUS", "MINUS"}) IN
       Then(parseFactor(tokens, operator.idx),
            LAMBDA right :
              parseTermLoop(tokens, right.idx,
                BinaryExpression(expression, right.node, operator.node.type)))

parseTerm(tokens, i) ==
  Then(parseFactor(tokens, i),
       LAMBDA expression : parseTermLoop(tokens, expression.idx, expression.node))

parseExpression(tokens, i) == parseTerm(tokens, i)

\* parseExpressionStatement: expect("SEMICOLON") and the statement built
parseExpressionStatementEnd(tokens, expression) ==
  LET s == expect(tokens, expression.idx, {"SEMICOLON"}) IN
  IF ~s.ok THEN s
  ELSE Returned(s.idx, ExpressionStatement(expression.node))

parseExpressionStatement(tokens, i) ==
  Then(parseExpression(tokens, i),
       LAMBDA expression : parseExpressionStatementEnd(tokens, expression))

\* tryParseVariableDeclaration: expect("SEMICOLON") after the initializer
parseVariableDeclarationEnd(tokens, type, variableName, value) ==
  LET e == expect(tokens, value.idx, {"SEMICOLON"}) IN
  IF ~e.ok THEN e
  ELSE Returned(e.idx,
         VariableDeclarationStatement(type.node, variableName.node, value.node))

\* tryParseVariableDeclaration: the body of the try block
parseVariableDeclaration(tokens, i) ==
  LET type == parseType(tokens, i) IN
  IF ~type.ok THEN type
  ELSE LET variableName == expect(tokens, type.idx, {"IDENTIFIER"}) IN
  IF ~variableName.ok THEN variableName
  ELSE LET s == isNext(tokens, variableName.idx, "SEMICOLON") IN
  IF ~s.ok THEN s
  ELSE IF Is(s)
       THEN Returned(variableName.idx + 1,
              VariableDeclarationStatement(type.node, variableName.node, NoExpression))
  ELSE IF TokenAt(tokens, variableName.idx).type = "ASSIGN"
       THEN Then(parseExpression(tokens, variableName.idx + 1),
                 LAMBDA value :
                   parseVariableDeclarationEnd(tokens, type, variableName, value))
  ELSE Thrown(variableName.idx, "Was not able to build variable declaration")

\* the value tryParseVariableDeclaration returns from its catch block
NoStatement == [type |-> "null"]

\* a catch block that does not restore the cursor
catchVariableDeclaration_NoRestore(_shadowCurrentTokenIndex, attempt) ==
  IF attempt.ok THEN attempt
  ELSE Returned(attempt.idx, NoStatement)

\* a catch block that rethrows
catchVariableDeclaration_Rethrows(_shadowCurrentTokenIndex, attempt) == attempt

\* the catch block of tryParseVariableDeclaration
catchVariableDeclaration(_shadowCurrentTokenIndex, attempt) ==
  IF attempt.ok THEN attempt
  ELSE Returned(_shadowCurrentTokenIndex, NoStatement)

\* tryParseVariableDeclaration: catch restores _shadowCurrentTokenIndex
tryParseVariableDeclaration(tokens, i) ==
  catchVariableDeclaration(i, parseVariableDeclaration(tokens, i))

\* parseImportStatement: the while loop building the path
RECURSIVE parseImportPath(_, _, _)
parseImportPath(tokens, i, path) ==
  IF AtEnd(tokens, i) THEN Returned(i, [type |-> "Path", list |-> path])
  ELSE LET part == expect(tokens, i, {"IDENTIFIER", "STAR"}) IN
  IF ~part.ok THEN part
  ELSE LET pushed == Append(path, part.node.lexeme)
           d == isNext(tokens, part.idx, "DOT") IN
  IF ~d.ok THEN d
  ELSE IF ~Is(d) THEN Returned(part.idx, [type |-> "Path", list |-> pushed])
  ELSE parseImportPath(tokens, part.idx + 1, pushed)

\* parseImportStatement: expect("SEMICOLON") and the statement built
parseImportStatementEnd(tokens, path) ==
  LET s == expect(tokens, path.idx, {"SEMICOLON"}) IN
  IF ~s.ok THEN s ELSE Returned(s.idx, ImportStatement(path.node.list))

parseImportStatement(tokens, i) ==
  Then(parseImportPath(tokens, i + 1, <<>>),
       LAMBDA path : parseImportStatementEnd(tokens, path))

\* parseParameterList: what follows parameters.push({ type, name })
RECURSIVE parseParameterListLoop(_, _, _)
parseParameterListNext(tokens, i, pushed) ==
  LET c == isNext(tokens, i, "COMMA") IN
  IF ~c.ok THEN c
  ELSE IF Is(c) THEN parseParameterListLoop(tokens, i + 1, pushed)
  ELSE IF TokenAt(tokens, i).type = "RPAREN"
       THEN Returned(i + 1, [type |-> "Parameters", list |-> pushed])
  ELSE Thrown(i, "Unexpected token")

\* parseParameterList: the while (!isNext("RPAREN")) loop
parseParameterListLoop(tokens, i, parameters) ==
  LET r == isNext(tokens, i, "RPAREN") IN
  IF ~r.ok THEN r
  ELSE IF Is(r) THEN Returned(i, [type |-> "Parameters", list |-> parameters])
  ELSE LET type == parseType(tokens, i) IN
  IF ~type.ok THEN type
  ELSE LET name == expect(tokens, type.idx, {"IDENTIFIER"}) IN
  IF ~name.ok THEN name
  ELSE parseParameterListNext(tokens, name.idx,
         Append(parameters, [type |-> type.node, name |-> name.node]))

parseParameterList(tokens, i) ==
  LET l == expect(tokens, i, {"LPAREN"}) IN
  IF ~l.ok THEN l ELSE parseParameterListLoop(tokens, l.idx, <<>>)

RECURSIVE parseStatement(_, _)
RECURSIVE parseMethodBody(_, _, _)
RECURSIVE parseClassMethods(_, _, _)

\* parseMethodDeclaration: the while (!isNext("RBRACE")) loop over the body,
\* then currentTokenIndex++
parseMethodBody(tokens, i, body) ==
  LET r == isNext(tokens, i, "RBRACE") IN
  IF ~r.ok THEN r
  ELSE IF Is(r) THEN Returned(i + 1, [type |-> "Body", list |-> body])
  ELSE Then(parseStatement(tokens, i),
            LAMBDA statement :
              parseMethodBody(tokens, statement.idx, Append(body, statement.node)))

\* parseMethodDeclaration: from parseParameterList() to the end
parseMethodDeclarationRest(tokens, accessModifier, isStatic, returnType, methodName) ==
  LET parameters == parseParameterList(tokens, methodName.idx) IN
  IF ~parameters.ok THEN parameters
  ELSE LET l == expect(tokens, parameters.idx, {"LBRACE"}) IN
  IF ~l.ok THEN l
  ELSE Then(parseMethodBody(tokens, l.idx, <<>>),
            LAMBDA body :
              Returned(body.idx,
                MethodDeclaration(accessModifier, isStatic, returnType.node,
                                  methodName.node, parameters.node.list,
                                  body.node.list)))

parseMethodDeclaration(tokens, i) ==
  LET a == isNext(tokens, i, "IDENTIFIER") IN
  IF ~a.ok THEN a
  ELSE LET hasModifier == Is(a) /\ isAccessModifier(TokenAt(tokens, i).lexeme)
           accessModifier == IF hasModifier THEN TokenAt(tokens, i).lexeme
                             ELSE "package-private"
           i1 == IF hasModifier THEN i + 1 ELSE i
           s == isNext(tokens, i1, "IDENTIFIER") IN
  IF ~s.ok THEN s
  ELSE LET isStatic == Is(s) /\ TokenAt(tokens, i1).lexeme = "static"
           i2 == IF isStatic THEN i1 + 1 ELSE i1
           returnType == parseType(tokens, i2) IN
  IF ~returnType.ok THEN returnType
  ELSE LET methodName == expect(tokens, returnType.idx, {"IDENTIFIER"}) IN
  IF ~methodName.ok THEN methodName
  ELSE parseMethodDeclarationRest(tokens, accessModifier, isStatic, returnType,
                                  methodName)

\* parseClassDeclaration: the while (!isNext("RBRACE")) loop over the methods
parseClassMethods(tokens, i, methods) ==
  LET r == isNext(tokens, i, "RBRACE") IN
  IF ~r.ok THEN r
  ELSE IF Is(r) THEN Returned(i, [type |-> "Methods", list |-> methods])
  ELSE Then(parseMethodDeclaration(tokens, i),
            LAMBDA methodDeclaration :
              parseClassMethods(tokens, methodDeclaration.idx,
                                Append(methods, methodDeclaration.node)))

\* parseClassDeclaration: expect("RBRACE") and the statement built
parseClassDeclarationEnd(tokens, name, methods) ==
  LET r == expect(tokens, methods.idx, {"RBRACE"}) IN
  IF ~r.ok THEN r
  ELSE Returned(r.idx, ClassDeclarationStatement(name.node, methods.node.list))

parseClassDeclaration(tokens, i) ==
  LET name == expect(tokens, i + 1, {"IDENTIFIER"}) IN
  IF ~name.ok THEN name
  ELSE LET l == expect(tokens, name.idx, {"LBRACE"}) IN
  IF ~l.ok THEN l
  ELSE Then(parseClassMethods(tokens, l.idx, <<>>),
            LAMBDA methods : parseClassDeclarationEnd(tokens, name, methods))

\* parseStatement: what follows tryParseVariableDeclaration()
parseStatementFallback(tokens, variableDeclaration) ==
  IF variableDeclaration.node.type # "null" THEN variableDeclaration
  ELSE parseExpressionStatement(tokens, variableDeclaration.idx)

\* parseStatement: reading tokens[i] past the end is a TypeError
parseStatement(tokens, i) ==
  IF AtEnd(tokens, i) THEN Thrown(i, "TypeError")
  ELSE LET currentToken == TokenAt(tokens, i) IN
  IF currentToken.type = "KEYWORD" /\ currentToken.keyword = "import"
  THEN parseImportStatement(tokens, i)
  ELSE IF currentToken.type = "KEYWORD" /\ currentToken.keyword = "class"
  THEN parseClassDeclaration(tokens, i)
  ELSE parseStatementFallback(tokens, tryParseVariableDeclaration(tokens, i))

\* parseRootLevel: the while loop pushing statements
RECURSIVE parseRootLevelLoop(_, _, _)
parseRootLevelLoop(tokens, i, statements) ==
  IF AtEnd(tokens, i) THEN Returned(i, [type |-> "Statements", list |-> statements])
  ELSE Then(parseStatement(tokens, i),
            LAMBDA statement :
              parseRootLevelLoop(tokens, statement.idx,
                                 Append(statements, statement.node)))

parseRootLevel(tokens) == parseRootLevelLoop(tokens, 0, <<>>)

(***************************************************************************)
(* The lexer (lexer.ts).  The input is the sequence of its characters,     *)
(* each a string of length one; currentCharacterIndex is 0-based, as in    *)
(* the code.  Reading input[i] past the end yields undefined, and a        *)
(* character test applied to undefined is a TypeError.                     *)
(***************************************************************************)
keywords ==
  {"if", "else", "while", "for", "return", "true", "false", "class", "import", "new"}
isKeyword(keyword) == keyword \in keywords

isAlphabetic(character) ==
  character \in {"a", "b", "c", "d", "e", "f", "g", "h", "i", "j", "k", "l", "m",
                 "n", "o", "p", "q", "r", "s", "t", "u", "v", "w", "x", "y", "z",
                 "A", "B", "C", "D", "E", "F", "G", "H", "I", "J", "K", "L", "M",
                 "N", "O", "P", "Q", "R", "S", "T", "U", "V", "W", "X", "Y", "Z"}
isNumeric(character) ==
  character \in {"0", "1", "2", "3", "4", "5", "6", "7", "8", "9"}
isAlphanumeric(character) == isAlphabetic(character) \/ isNumeric(character)
isWhitespace(character) == character \in {" ", "\t", "\n", "\r"}

\* symbolMapping[character]: the token type, "undefined" for any other character
symbolMapping(character) ==
  CASE character = "+" -> "PLUS"
    [] character = "-" -> "MINUS"
    [] character = "." -> "DOT"
    [] character = "(" -> "LPAREN"
    [] character = ")" -> "RPAREN"
    [] character = "{" -> "LBRACE"
    [] character = "}" -> "RBRACE"
    [] character = ";" -> "SEMICOLON"
    [] character = "," -> "COMMA"
    [] character = "=" -> "ASSIGN"
    [] character = "*" -> "STAR"
    [] character = "/" -> "SLASH"
    [] character = "%" -> "PERCENT"
    [] character = "[" -> "LBRACKET"
    [] character = "]" -> "RBRACKET"
    [] OTHER -> "undefined"

\* this.input[i]
CharacterAt(input, i) == IF i < Len(input) THEN input[i + 1] ELSE "undefined"

\* identifier(): the do-while loop; isAlphanumeric(undefined) at the end of the
\* input is a TypeError
RECURSIVE identifierLoop(_, _, _)
identifierLoop(input, i, identifier) ==
  IF i + 1 >= Len(input) THEN Thrown(i + 1, "TypeError")
  ELSE IF isAlphanumeric(input[i + 2])
  THEN identifierLoop(input, i + 1, identifier \o input[i + 1])
  ELSE Returned(i + 1, identifier \o input[i + 1])

identifier(input, i) ==
  Then(identifierLoop(input, i, ""),
       LAMBDA word : Returned(word.idx, IF isKeyword(word.node) THEN Kw(word.node)
                                        ELSE Id(word.node)))

\* number(): the do-while loop over the integer part
RECURSIVE numberLoop(_, _, _)
numberLoop(input, i, numberString) ==
  IF i + 1 >= Len(input) THEN Thrown(i + 1, "TypeError")
  ELSE IF isNumeric(input[i + 2])
  THEN numberLoop(input, i + 1, numberString \o input[i + 1])
  ELSE Returned(i + 1, numberString \o input[i + 1])

\* number(): the while loop over the fractional part
RECURSIVE fractionLoop(_, _, _)
fractionLoop(input, i, fractionalPart) ==
  IF i >= Len(input) THEN Thrown(i, "TypeError")
  ELSE IF isNumeric(input[i + 1])
  THEN fractionLoop(input, i + 1, fractionalPart \o input[i + 1])
  ELSE Returned(i, fractionalPart)

number(input, i) ==
  Then(numberLoop(input, i, ""),
       LAMBDA whole :
         IF CharacterAt(input, whole.idx) # "." THEN Returned(whole.idx, Num(whole.node \o "."))
         ELSE IF whole.idx + 1 >= Len(input) THEN Thrown(whole.idx + 1, "TypeError")
         ELSE IF ~isNumeric(input[whole.idx + 2])
         THEN Thrown(whole.idx + 1,
                     "Failed to create number, expected digit after decimal point")
         ELSE Then(fractionLoop(input, whole.idx + 1, ""),
                   LAMBDA fraction :
                     Returned(fraction.idx, Num(whole.node \o "." \o fraction.node))))

\* whitespace(): the do-while loop; yields the index after the run
RECURSIVE whitespace(_, _)
whitespace(input, i) ==
  IF i + 1 < Len(input) /\ isWhitespace(input[i + 2]) THEN whitespace(input, i + 1)
  ELSE i + 1

(***************************************************************************)
(* Map<string, Value> (the JavaScript Map): the entries in insertion       *)
(* order.                                                                  *)
(***************************************************************************)
MapHas(map, key) == \E k \in 1..Len(map) : map[k].key = key
MapIndex(map, key) == CHOOSE k \in 1..Len(map) : map[k].key = key
MapGet(map, key) == map[MapIndex(map, key)].value
MapSet(map, key, value) ==
  IF MapHas(map, key) THEN [map EXCEPT ![MapIndex(map, key)].value = value]
  ELSE Append(map, [key |-> key, value |-> value])
MapKeys(map) == [k \in 1..Len(map) |-> map[k].key]

(***************************************************************************)
(* Host values that are no Value: null, undefined, a thrown Error, a       *)
(* Promise object (by its index in promises) and an array.                 *)
(***************************************************************************)
JsNull == [tag |-> "null"]
Undefined == [tag |-> "undefined"]
Error(message) == [tag |-> "Error", message |-> message]
PromiseObject(p) == [tag |-> "Promise", id |-> p]
ArrayOf(items) == [tag |-> "Array", items |-> items]

\* what a function hands back: a value, or a thrown Error
Return(value) == [ok |-> TRUE, value |-> value]
Throw(message) == [ok |-> FALSE, value |-> Error(message)]

(***************************************************************************)
(* Environment (Interpreter.ts).  envs is the heap of Environment objects; *)
(* an Environment is named by its index, parent = 0 is "no parent".        *)
(***************************************************************************)
Environment(parent) == [parent |-> parent, underlying |-> <<>>]

\* a get that does not ask the parent
get_LocalOnly(envs, environment, name) ==
  IF MapHas(envs[environment].underlying, name)
  THEN Return(MapGet(envs[environment].underlying, name))
  ELSE Throw("Undefined variable")

RECURSIVE get(_, _, _)
get(envs, environment, name) ==
  IF MapHas(envs[environment].underlying, name)
  THEN Return(MapGet(envs[environment].underlying, name))
  ELSE IF envs[environment].parent # 0
       THEN get(envs, envs[environment].parent, name)
       ELSE Throw("Undefined variable")

\* a setValue that updates the binding of the parent when the parent has one
setValue_WhereBound(envs, environment, name, value) ==
  IF envs[environment].parent # 0
       /\ MapHas(envs[envs[environment].parent].underlying, name)
  THEN [envs EXCEPT ![envs[environment].parent].underlying = MapSet(@, name, value)]
  ELSE [envs EXCEPT ![environment].underlying = MapSet(@, name, value)]

setValue(envs, environment, name, value) ==
  [envs EXCEPT ![environment].underlying = MapSet(@, name, value)]

RECURSIVE getKeys(_, _)
getKeys(envs, environment) ==
  MapKeys(envs[environment].underlying)
    \o (IF envs[environment].parent # 0
        THEN getKeys(envs, envs[environment].parent) ELSE <<>>)

getAllKeys(envs, environment) == getKeys(envs, environment)

(***************************************************************************)
(* Values (Value.ts).                                                      *)
(***************************************************************************)
PackageValue(underlying) == [tag |-> "Package", underlying |-> underlying]

UserDefinedMethodValue(environment, methodDeclaration) ==
  [tag |-> "UserDefinedMethod", environment |-> environment,
   body |-> methodDeclaration.body,
   parameters |-> [k \in 1..Len(methodDeclaration.parameters) |->
                     methodDeclaration.parameters[k].name.lexeme]]

InternalMethodValue(environment, parameters, implementation, varArgs) ==
  [tag |-> "InternalMethod", environment |-> environment,
   parameters |-> parameters, implementation |-> implementation,
   varArgs |-> varArgs]

\* a loop that puts every method into the table, static or not
RECURSIVE methodTable_AllMethods(_, _, _, _)
methodTable_AllMethods(methods, environment, static, table) ==
  IF methods = <<>> THEN table
  ELSE methodTable_AllMethods(Tail(methods), environment, static,
         MapSet(table, Head(methods).name.lexeme,
                UserDefinedMethodValue(environment, Head(methods))))

\* the constructor's loop over the methods, for the static or the others
RECURSIVE methodTable(_, _, _, _)
methodTable(methods, environment, static, table) ==
  IF methods = <<>> THEN table
  ELSE methodTable(Tail(methods), environment, static,
         IF Head(methods).isStatic = static
         THEN MapSet(table, Head(methods).name.lexeme,
                     UserDefinedMethodValue(environment, Head(methods)))
         ELSE table)

UserDefinedClassValue(methods, environment) ==
  [tag |-> "UserDefinedClass", environment |-> environment,
   statics |-> methodTable(methods, environment, TRUE, <<>>),
   nonStatics |-> methodTable(methods, environment, FALSE, <<>>)]

InternalClassValue(statics, nonStatics) ==
  [tag |-> "InternalClass", statics |-> statics, nonStatics |-> nonStatics]

ClassInstanceValue(properties) ==
  [tag |-> "ClassInstance", underlying |-> properties]

UserDefinedClassInstanceValue(classConstructor, properties) ==
  [tag |-> "UserDefinedClassInstance", classConstructor |-> classConstructor,
   underlying |-> properties]

hasMainMethod(classValue) ==
  MapHas(classValue.statics, "main")
    /\ MapGet(classValue.statics, "main").tag = "UserDefinedMethod"

\* a dotAccess that yields Null where the variant has nothing to give
dotAccess_Lenient(value, key) ==
  IF value.tag \in {"Package", "ClassInstance", "UserDefinedClassInstance"}
       /\ MapHas(value.underlying, key)
  THEN Return(MapGet(value.underlying, key))
  ELSE IF value.tag \in {"UserDefinedClass", "InternalClass"} /\ MapHas(value.statics, key)
  THEN Return(MapGet(value.statics, key))
  ELSE IF value.tag = "UserDefinedClassInstance" /\ key = "$class"
  THEN Return(value.classConstructor)
  ELSE Return(NullValue)

\* value.dotAccess(key)
dotAccess(value, key) ==
  CASE value.tag = "String" -> Throw("Strings are not dot accessible")
    [] value.tag = "Number" -> Throw("Numbers are not dot accessible")
    [] value.tag = "Null" -> Throw("Null is not dot accessible")
    [] value.tag = "Package" ->
         IF MapHas(value.underlying, key)
         THEN Return(MapGet(value.underlying, key))
         ELSE Throw("No value with key")
    [] value.tag \in {"UserDefinedClass", "InternalClass"} ->
         IF MapHas(value.statics, key)
         THEN Return(MapGet(value.statics, key))
         ELSE Throw("No value with key")
    [] value.tag = "ClassInstance" ->
         IF MapHas(value.underlying, key)
         THEN Return(MapGet(value.underlying, key))
         ELSE Throw("No value with key")
    [] value.tag = "UserDefinedClassInstance" ->
         IF key = "$class" THEN Return(value.classConstructor)
         ELSE IF MapHas(value.underlying, key)
              THEN Return(MapGet(value.underlying, key))
              ELSE Throw("No value with key")
    [] value.tag \in {"UserDefinedMethod", "InternalMethod"} ->
         Throw("Methods are not dot accessible")
    [] OTHER -> Throw("TypeError")

(***************************************************************************)
(* Arithmetic on doubles, held as rationals: n/0 is an infinity for n # 0  *)
(* and 0/0 is NaN.                                                         *)
(***************************************************************************)
IsFinite(q) == q.den # 0

Add(a, b) ==
  IF IsFinite(a) /\ IsFinite(b) THEN Rat(a.num * b.den + b.num * a.den, a.den * b.den)
  ELSE IF IsFinite(a) THEN b
  ELSE IF IsFinite(b) THEN a
  ELSE IF a = b THEN a ELSE Rat(0, 0)

Neg(a) == [num |-> -a.num, den |-> a.den]

Mul(a, b) == Rat(a.num * b.num, a.den * b.den)

Div(a, b) ==
  IF IsFinite(a) /\ IsFinite(b) THEN Rat(a.num * b.den, a.den * b.num)
  ELSE IF IsFinite(b) THEN Rat(a.num * (IF b.num < 0 THEN -1 ELSE 1), 0)
  ELSE IF IsFinite(a) THEN Rat(0, 1)
  ELSE Rat(0, 0)

\* the remainder with the sign of the dividend
Rem(a, b) ==
  IF ~IsFinite(a) \/ b.num = 0 THEN Rat(0, 0)
  ELSE IF ~IsFinite(b) THEN a
  ELSE LET n == a.num * b.den
           d == b.num * a.den
           t == Trunc(n * (IF d < 0 THEN -1 ELSE 1), Abs(d))
       IN  Add(a, Neg(Mul(b, Rat(t, 1))))

\* BinaryExpression.number_number
number_number(operator, leftValue, rightValue) ==
  LET l == Rat(leftValue.num, leftValue.den)
      r == Rat(rightValue.num, rightValue.den)
  IN  CASE operator = "PLUS" -> Return(NumberValue(Add(l, r)))
        [] operator = "MINUS" -> Return(NumberValue(Add(l, Neg(r))))
        [] operator = "STAR" -> Return(NumberValue(Mul(l, r)))
        [] operator = "SLASH" -> Return(NumberValue(Div(l, r)))
        [] operator = "PERCENT" -> Return(NumberValue(Rem(l, r)))
        [] OTHER -> Throw("Binary expressions can only be performed on numbers")

\* Number.prototype.toString of a double that is an integer or a short decimal
NumberToString(q) ==
  IF q.den = 0 THEN (IF q.num = 0 THEN "NaN" ELSE IF q.num > 0 THEN "Infinity" ELSE "-Infinity")
  ELSE IF q.den = 1 THEN ToString(q.num)
  ELSE IF q.den = 2
       THEN (IF q.num < 0 /\ Trunc(q.num, 2) = 0 THEN "-0" ELSE ToString(Trunc(q.num, 2))) \o ".5"
       ELSE ToString(q.num) \o "/" \o ToString(q.den)

\* value.toString()
toString(value) ==
  CASE value.tag = "String" -> Return(value.str)
    [] value.tag = "Number" -> Return(NumberToString(value))
    [] value.tag = "Null" -> Return("null")
    [] value.tag = "Package" -> Return("[INTERNAL] PackageValue")
    [] value.tag \in {"UserDefinedClass", "InternalClass"} -> Return("[INTERNAL] ClassValue")
    [] value.tag \in {"ClassInstance", "UserDefinedClassInstance"} ->
         Return("[INTERNAL] ClassInstanceValue")
    [] value.tag \in {"UserDefinedMethod", "InternalMethod"} -> Return("[INTERNAL] MethodValue")
    [] value.tag = "null" -> Throw("TypeError")
    [] OTHER -> Return("[object]")

\* BinaryExpression.string_string
string_string(left, right) == StringValue(left \o right)

\* the tail of BinaryExpression.evaluate, both operands known
binary(operator, leftValue, rightValue) ==
  IF leftValue.tag = "Number" /\ rightValue.tag = "Number"
  THEN number_number(operator, leftValue, rightValue)
  ELSE IF leftValue.tag = "String"
       THEN IF toString(rightValue).ok
            THEN Return(string_string(leftValue.str, toString(rightValue).value))
            ELSE toString(rightValue)
       ELSE Throw("Unsupported binary expresion types")

(***************************************************************************)
(* The run-time machine.  A machine m is the record of                     *)
(*   envs       the Environment objects                                    *)
(*   frames     the activations of the async functions (evaluate,          *)
(*              callFunction, a host implementation) and of main()         *)
(*   stack      the activations on the call stack, the running one last    *)
(*   promises   the Promise objects                                        *)
(*   microtasks the promise job queue, oldest first                        *)
(*   timers     the promises of the pending delay() timers, oldest first   *)
(*   listeners  the promises whose resolve is a "data" listener of stdin   *)
(*   stdin      the number of lines read so far                            *)
(*   output     what was written to stdout                                 *)
(*   ret        what the running activation has just received: the value   *)
(*              of its last call or of the await it resumes from           *)
(*   trace      the side effects so far, each with the statement it is of  *)
(*   crashed    the process died of an unhandled rejection                 *)
(***************************************************************************)
\* the statement an activation works for: statement index of the body run by
\* activation call
Chain(call, index) == [call |-> call, index |-> index]

Frame(kind, node, value, args, env, chain) ==
  [kind |-> kind, node |-> node, value |-> value, args |-> args, env |-> env,
   chain |-> chain, pc |-> "start", i |-> 1, promise |-> 0, caller |-> 0]

\* expression.evaluate(interpreter)
Evaluate(expression, env, chain) ==
  Frame("evaluate", expression, Undefined, <<>>, env, chain)

\* value.callFunction(args)
CallFunction(value, args, chain) ==
  Frame("callFunction", [type |-> value.tag], value, args, 0, chain)

\* this.implementation(...args)
Implementation(method, args, chain) ==
  Frame("implementation", [type |-> method.implementation], method, args, 0, chain)

PendingPromise ==
  [state |-> "pending", value |-> Undefined, reactions |-> <<>>,
   handled |-> FALSE, items |-> <<>>, remaining |-> 0]

Reaction(kind, frame, target, index) ==
  [kind |-> kind, frame |-> frame, target |-> target, index |-> index]

Job(reaction, source, ok, value) ==
  [kind |-> reaction.kind, frame |-> reaction.frame, target |-> reaction.target,
   index |-> reaction.index, source |-> source, ok |-> ok, value |-> value]

Top(m) == m.stack[Len(m.stack)]

SetPc(m, f, pc) == [m EXCEPT !.frames[f].pc = pc]

\* the running activation calls an async function: a new activation, with the
\* promise it returns
Call(m, frame) ==
  [m EXCEPT !.promises = Append(@, PendingPromise),
            !.frames = Append(@, [frame EXCEPT !.promise = Len(m.promises) + 1,
                                               !.caller = Top(m)]),
            !.stack = Append(@, Len(m.frames) + 1)]

\* a promise is fulfilled or rejected: its reactions become jobs
Settle(m, p, ok, value) ==
  IF m.promises[p].state # "pending" THEN m
  ELSE [m EXCEPT
          !.promises[p].state = IF ok THEN "fulfilled" ELSE "rejected",
          !.promises[p].value = value,
          !.promises[p].reactions = <<>>,
          !.microtasks = @ \o [k \in 1..Len(m.promises[p].reactions) |->
                                 Job(m.promises[p].reactions[k], 0, ok, value)]]

\* the resolve function of a promise: a promise given to it is adopted by a job
Resolve(m, p, value) ==
  IF value.tag = "Promise"
  THEN [m EXCEPT !.microtasks =
          Append(@, Job(Reaction("thenable", 0, p, 0), value.id, TRUE, Undefined))]
  ELSE Settle(m, p, TRUE, value)

\* promise.then(reaction)
PromiseThen(m, p, reaction) ==
  IF m.promises[p].state = "pending"
  THEN [m EXCEPT !.promises[p].reactions = Append(@, reaction),
                 !.promises[p].handled = TRUE]
  ELSE [m EXCEPT !.promises[p].handled = TRUE,
                 !.microtasks = Append(@, Job(reaction, 0,
                                    m.promises[p].state = "fulfilled",
                                    m.promises[p].value))]

\* await value, in activation f
Await(m, f, value) ==
  IF value.tag = "Promise"
  THEN PromiseThen(m, value.id, Reaction("resume", f, 0, 0))
  ELSE [m EXCEPT !.microtasks =
          Append(@, Job(Reaction("resume", f, 0, 0), 0, TRUE, value))]

\* the running activation leaves the stack; its caller, if it is still on the
\* stack, receives its promise
Leave(m, f) ==
  [m EXCEPT !.stack = SubSeq(@, 1, Len(@) - 1),
            !.ret = Return(PromiseObject(m.frames[f].promise))]

\* activation f awaits value and goes on at pc
Suspend(m, f, value, pc) == Leave(Await(SetPc(m, f, pc), f, value), f)

\* activation f returns outcome.value or throws it
Finish(m, f, outcome) ==
  Leave(SetPc(IF outcome.ok THEN Resolve(m, m.frames[f].promise, outcome.value)
              ELSE Settle(m, m.frames[f].promise, FALSE, outcome.value),
              f, "done"), f)

\* Promise.all(promises): element k reacts to promises[k]
RECURSIVE PromiseAllThen(_, _, _, _)
PromiseAllThen(m, all, promises, k) ==
  IF k > Len(promises) THEN m
  ELSE PromiseAllThen(PromiseThen(m, promises[k].id, Reaction("element", 0, all, k)),
                      all, promises, k + 1)

PromiseAll(m, promises) ==
  PromiseAllThen(
    [m EXCEPT !.promises = Append(@,
       [PendingPromise EXCEPT
          !.state = IF promises = <<>> THEN "fulfilled" ELSE "pending",
          !.value = IF promises = <<>> THEN ArrayOf(<<>>) ELSE Undefined,
          !.items = [k \in 1..Len(promises) |-> Undefined],
          !.remaining = Len(promises)])],
    Len(m.promises) + 1, promises, 1)

\* environment.setValue(name, value) for the statement chain, a side effect
SetValue(m, env, chain, name, value) ==
  [m EXCEPT !.envs = setValue(@, env, name, value),
            !.trace = Append(@, [kind |-> "setValue", chain |-> chain])]

\* a write to stdout for the statement chain, a side effect
Write(m, chain, text) ==
  [m EXCEPT !.output = Append(@, text),
            !.trace = Append(@, [kind |-> "write", chain |-> chain])]

(***************************************************************************)
(* Statement.visit (Statement.ts).                                         *)
(***************************************************************************)
\* a Hashmapish: an Environment (by index) or a PackageValue
EnvironmentRef(environment) == [tag |-> "Environment", id |-> environment]

hashGet(envs, current, key) ==
  IF current.tag = "Environment" THEN get(envs, current.id, key)
  ELSE IF MapHas(current.underlying, key)
       THEN Return(MapGet(current.underlying, key))
       ELSE Throw("No value with key")

hashAllKeys(envs, current) ==
  IF current.tag = "Environment" THEN getAllKeys(envs, current.id)
  ELSE MapKeys(current.underlying)

\* a wildcard that binds nothing
importAll_Nothing(envs, global, current, allKeys, k) == envs

\* for (const key of allKeys) global.setValue(key, currentEnvironment.get(key))
RECURSIVE importAll(_, _, _, _, _)
importAll(envs, global, current, allKeys, k) ==
  IF k > Len(allKeys) THEN envs
  ELSE importAll(setValue(envs, global, allKeys[k],
                          hashGet(envs, current, allKeys[k]).value),
                 global, current, allKeys, k + 1)

\* an import that binds the value its last segment names, as Java does
RECURSIVE importPath_BindsLast(_, _, _, _)
importPath_BindsLast(envs, global, current, path) ==
  IF path = <<>> THEN Return(envs)
  ELSE IF Head(path) = "*"
  THEN Return(importAll(envs, global, current, hashAllKeys(envs, current), 1))
  ELSE IF ~hashGet(envs, current, Head(path)).ok
  THEN hashGet(envs, current, Head(path))
  ELSE IF Len(path) = 1
  THEN Return(setValue(envs, global, Head(path),
                       hashGet(envs, current, Head(path)).value))
  ELSE IF hashGet(envs, current, Head(path)).value.tag # "Package"
  THEN Throw("Tried to import a non-package")
  ELSE importPath_BindsLast(envs, global, hashGet(envs, current, Head(path)).value,
                            Tail(path))

\* ImportStatement.visit: the loop over the path; yields the new envs
RECURSIVE importPath(_, _, _, _)
importPath(envs, global, current, path) ==
  IF path = <<>> THEN Return(envs)
  ELSE IF Head(path) = "*"
  THEN Return(importAll(envs, global, current, hashAllKeys(envs, current), 1))
  ELSE IF ~hashGet(envs, current, Head(path)).ok
  THEN hashGet(envs, current, Head(path))
  ELSE IF hashGet(envs, current, Head(path)).value.tag # "Package"
  THEN Throw("Tried to import a non-package")
  ELSE importPath(envs, global, hashGet(envs, current, Head(path)).value, Tail(path))

\* a search that takes the last class with a main method
findMain_Last(envs, environment) ==
  LET environmentKeys == getKeys(envs, environment)
      isMain(k) ==
        LET classValue == get(envs, environment, environmentKeys[k]).value IN
        classValue.tag = "UserDefinedClass" /\ hasMainMethod(classValue)
  IN  IF \E k \in 1..Len(environmentKeys) : isMain(k)
      THEN LET last == CHOOSE k \in 1..Len(environmentKeys) :
                         isMain(k) /\ \A j \in (k + 1)..Len(environmentKeys) : ~isMain(j)
           IN  Return(MapGet(get(envs, environment, environmentKeys[last]).value.statics,
                             "main"))
      ELSE Throw("No main method found")

\* a search that accepts any method named main, static or not, and gives Null
\* when there is none
findMain_NoError(envs, environment) ==
  LET environmentKeys == getKeys(envs, environment)
      classValue(k) == get(envs, environment, environmentKeys[k]).value
      isMain(k) ==
        /\ classValue(k).tag = "UserDefinedClass"
        /\ MapHas(classValue(k).statics \o classValue(k).nonStatics, "main")
  IN  IF \E k \in 1..Len(environmentKeys) : isMain(k)
      THEN LET first == CHOOSE k \in 1..Len(environmentKeys) :
                          isMain(k) /\ \A j \in 1..(k - 1) : ~isMain(j)
           IN  Return(MapGet(classValue(first).statics \o classValue(first).nonStatics,
                             "main"))
      ELSE Return(NullValue)

\* ExecuteMainStatement.visit: the first key that names a class with a main method
findMain(envs, environment) ==
  LET environmentKeys == getKeys(envs, environment)
      isMain(k) ==
        LET classValue == get(envs, environment, environmentKeys[k]).value IN
        classValue.tag = "UserDefinedClass" /\ hasMainMethod(classValue)
  IN  IF \E k \in 1..Len(environmentKeys) : isMain(k)
      THEN LET first == CHOOSE k \in 1..Len(environmentKeys) :
                          isMain(k) /\ \A j \in 1..(k - 1) : ~isMain(j)
           IN  Return(MapGet(get(envs, environment, environmentKeys[first]).value.statics,
                             "main"))
      ELSE Throw("No main method found")

\* the statements an activation runs: those of the program, or a method's body
Body(frame) == IF frame.kind = "main" THEN frame.node.body ELSE frame.value.body

\* statement.visit(interpreter) for statement i of the body of activation f
Visit(m, f, statement) ==
  LET frame == m.frames[f]
      chain == Chain(f, frame.i)
  IN  CASE statement.type = "ExpressionStatement" ->
             Call(SetPc(m, f, "visited"),
                  Evaluate(statement.expression, frame.env, chain))
        [] statement.type = "VariableDeclaration" ->
             IF statement.value.type # "none"
             THEN Call(SetPc(m, f, "declare"),
                       Evaluate(statement.value, frame.env, chain))
             ELSE SetPc(SetValue(m, frame.env, chain, statement.name.lexeme, NullValue),
                        f, "visited")
        [] statement.type = "ClassDeclaration" ->
             SetPc(SetValue(m, frame.env, chain, statement.name.lexeme,
                            UserDefinedClassValue(statement.methods, frame.env)),
                   f, "visited")
        [] statement.type = "Import" ->
             LET imported == importPath(m.envs, frame.env, EnvironmentRef(frame.env),
                                        statement.path)
             IN  IF imported.ok
                 THEN SetPc([m EXCEPT !.envs = imported.value], f, "visited")
                 ELSE Finish(m, f, imported)
        [] statement.type = "ExecuteMain" ->
             LET mainMethod == findMain(m.envs, frame.env) IN
             IF mainMethod.ok
             THEN Call(SetPc(m, f, "visited"),
                       CallFunction(mainMethod.value, <<StringValue("Hello World")>>, chain))
             ELSE Finish(m, f, mainMethod)

\* the loop over the statements: of main() (index.ts), which goes on at once,
\* and of UserDefinedMethodValue.callFunction, which awaits what visit returned
RunBody(m, f) ==
  LET frame == m.frames[f] IN
  CASE frame.pc = "visit" ->
         IF frame.i > Len(Body(frame))
         THEN Finish(m, f, Return(IF frame.kind = "main" THEN Undefined ELSE JsNull))
         ELSE Visit(m, f, Body(frame)[frame.i])
    [] frame.pc = "declare" ->
         SetPc(SetValue(m, frame.env, Chain(f, frame.i),
                        Body(frame)[frame.i].name.lexeme, m.ret.value),
               f, "visited")
    [] frame.pc = "visited" ->
         IF frame.kind = "main"
         THEN [m EXCEPT !.frames[f].pc = "visit", !.frames[f].i = @ + 1]
         ELSE Suspend([m EXCEPT !.frames[f].i = @ + 1], f, Undefined, "visit")

(***************************************************************************)
(* Expression.evaluate (Expression.ts), one step of activation f at a time.*)
(* A step ends where the activation calls an async function, awaits, or    *)
(* returns.                                                                *)
(***************************************************************************)
\* IdentifierExpression.evaluate
IdentifierEvaluate(m, f) ==
  Finish(m, f, get(m.envs, m.frames[f].env, m.frames[f].node.identifier.lexeme))

\* LiteralExpression.evaluate
LiteralEvaluate(m, f) == Finish(m, f, Return(m.frames[f].node.value))

\* an assignment that also accepts a dotted access on its left
isLValue_Member(expression) == expression.type \in {"Identifier", "DotAccess"}

\* expression.isLValue()
isLValue(expression) == expression.type = "Identifier"

\* AssignmentExpression.evaluate
AssignmentEvaluate(m, f) ==
  LET frame == m.frames[f] IN
  CASE frame.pc = "start" ->
         IF ~isLValue(frame.node.left)
         THEN Finish(m, f, Throw("Left side of assignment must be assignable"))
         ELSE Call(SetPc(m, f, "await"),
                   Evaluate(frame.node.right, frame.env, frame.chain))
    [] frame.pc = "await" -> Suspend(m, f, m.ret.value, "resume")
    [] frame.pc = "resume" ->
         IF ~m.ret.ok THEN Finish(m, f, m.ret)
         ELSE Finish(SetValue(m, frame.env, frame.chain,
                              frame.node.left.identifier.lexeme, m.ret.value),
                     f, Return(m.ret.value))

\* BinaryExpression.evaluate
BinaryEvaluate(m, f) ==
  LET frame == m.frames[f] IN
  CASE frame.pc = "start" ->
         Call(SetPc(m, f, "awaitLeft"),
              Evaluate(frame.node.left, frame.env, frame.chain))
    [] frame.pc = "awaitLeft" -> Suspend(m, f, m.ret.value, "left")
    [] frame.pc = "left" ->
         IF ~m.ret.ok THEN Finish(m, f, m.ret)
         ELSE Call([m EXCEPT !.frames[f].pc = "awaitRight",
                             !.frames[f].value = m.ret.value],
                   Evaluate(frame.node.right, frame.env, frame.chain))
    [] frame.pc = "awaitRight" -> Suspend(m, f, m.ret.value, "right")
    [] frame.pc = "right" ->
         IF ~m.ret.ok THEN Finish(m, f, m.ret)
         ELSE Finish(m, f, binary(frame.node.operator, frame.value, m.ret.value))

\* DotAccessExpression.evaluate
DotAccessEvaluate(m, f) ==
  LET frame == m.frames[f] IN
  CASE frame.pc = "start" ->
         Call(SetPc(m, f, "await"),
              Evaluate(frame.node.parentExpr, frame.env, frame.chain))
    [] frame.pc = "await" -> Suspend(m, f, m.ret.value, "resume")
    [] frame.pc = "resume" ->
         IF ~m.ret.ok THEN Finish(m, f, m.ret)
         ELSE Finish([m EXCEPT !.frames[f].value = m.ret.value], f,
                     dotAccess(m.ret.value, frame.node.identifier.lexeme))

\* await Promise.all(promises), then go on at "all"
AwaitAll(m, f, promises) ==
  Suspend(PromiseAll(m, promises), f, PromiseObject(Len(m.promises) + 1), "all")

\* MethodCallExpression.evaluate
MethodCallEvaluate(m, f) ==
  LET frame == m.frames[f] IN
  CASE frame.pc = "start" ->
         Call(SetPc(m, f, "await"),
              Evaluate(frame.node.method, frame.env, frame.chain))
    [] frame.pc = "await" -> Suspend(m, f, m.ret.value, "method")
    [] frame.pc = "method" ->
         IF ~m.ret.ok THEN Finish(m, f, m.ret)
         ELSE IF m.ret.value.tag = "null" THEN Finish(m, f, Throw("TypeError"))
         ELSE IF frame.node.args = <<>>
         THEN AwaitAll([m EXCEPT !.frames[f].value = m.ret.value], f, <<>>)
         ELSE Call([m EXCEPT !.frames[f].pc = "args",
                             !.frames[f].value = m.ret.value],
                   Evaluate(frame.node.args[1], frame.env, frame.chain))
    [] frame.pc = "args" ->
         IF frame.i < Len(frame.node.args)
         THEN Call([m EXCEPT !.frames[f].i = @ + 1,
                             !.frames[f].args = Append(@, m.ret.value)],
                   Evaluate(frame.node.args[frame.i + 1], frame.env, frame.chain))
         ELSE AwaitAll(m, f, Append(frame.args, m.ret.value))
    [] frame.pc = "all" ->
         IF ~m.ret.ok THEN Finish(m, f, m.ret)
         ELSE Call(SetPc(m, f, "returned"),
                   CallFunction(frame.value, m.ret.value.items, frame.chain))
    [] frame.pc = "returned" -> Finish(m, f, m.ret)

(***************************************************************************)
(* Value.callFunction (Value.ts).                                          *)
(***************************************************************************)
\* no check of the number of arguments
wrongNumberOfArguments_Never(method, args) == FALSE

\* args.length !== this.parameters.length, which a varArgs method does not ask
wrongNumberOfArguments(method, args) ==
  IF method.tag = "InternalMethod" /\ method.varArgs THEN FALSE
  ELSE Len(args) # Len(method.parameters)

\* a call environment without a parent
callEnvironment_NoParent(method) == Environment(0)

\* new Environment(this.environment)
callEnvironment(method) == Environment(method.environment)

\* newEnvironment.setValue(parameter.name, args[i]) for each parameter
RECURSIVE bindParameters(_, _, _, _, _)
bindParameters(envs, environment, parameters, args, k) ==
  IF k > Len(parameters) THEN envs
  ELSE bindParameters(
         setValue(envs, environment, parameters[k],
                  IF k <= Len(args) THEN args[k] ELSE Undefined),
         environment, parameters, args, k + 1)

\* the new environment of a call, the parameters bound; activation f holds it
NewEnvironment(m, f, method, args) ==
  [m EXCEPT !.envs = bindParameters(Append(@, callEnvironment(method)),
                                    Len(m.envs) + 1, method.parameters, args, 1),
            !.frames[f].env = Len(m.envs) + 1]

\* UserDefinedMethodValue.callFunction
UserDefinedMethodCall(m, f) ==
  LET frame == m.frames[f] IN
  IF frame.pc = "start"
  THEN IF wrongNumberOfArguments(frame.value, frame.args)
       THEN Finish(m, f, Throw("Wrong number of arguments"))
       ELSE SetPc(NewEnvironment(m, f, frame.value, frame.args), f, "visit")
  ELSE RunBody(m, f)

\* InternalMethodValue.callFunction
InternalMethodCall(m, f) ==
  LET frame == m.frames[f] IN
  CASE frame.pc = "start" ->
         IF wrongNumberOfArguments(frame.value, frame.args)
         THEN Finish(m, f, Throw("Wrong number of arguments"))
         ELSE Call(SetPc(NewEnvironment(m, f, frame.value, frame.args), f, "await"),
                   Implementation(frame.value, frame.args, frame.chain))
    [] frame.pc = "await" -> Suspend(m, f, m.ret.value, "resume")
    [] frame.pc = "resume" -> Finish(m, f, m.ret)

\* InternalClassValue.callFunction and UserDefinedClassValue.callFunction
ClassCall(m, f) ==
  LET classValue == m.frames[f].value IN
  IF classValue.tag = "InternalClass"
  THEN Finish(m, f, Return(ClassInstanceValue(classValue.nonStatics)))
  ELSE Finish(m, f, Return(UserDefinedClassInstanceValue(classValue, classValue.nonStatics)))

\* callFunction of the values that are not callable
NotCallable(m, f) ==
  LET tag == m.frames[f].value.tag IN
  Finish(m, f,
    CASE tag = "String" -> Throw("Strings are not callable")
      [] tag = "Number" -> Throw("Numbers are not callable")
      [] tag = "Null" -> Throw("Null is not callable")
      [] tag = "Package" -> Throw("Packages are not callable")
      [] tag \in {"ClassInstance", "UserDefinedClassInstance"} ->
           Throw("Class instances are not callable")
      [] OTHER -> Throw("TypeError"))

(***************************************************************************)
(* The standard library (Interpreter.ts: createStandardLibrary) and the    *)
(* host functions.                                                         *)
(***************************************************************************)
\* createMap / new Map of the entries
createMap(keys, values) == [k \in 1..Len(keys) |-> [key |-> keys[k], value |-> values[k]]]

\* the Environment heap after createStandardLibrary(): environment 1
createStandardLibrary ==
  LET environment == 1
      println == InternalMethodValue(environment, <<"value">>, "println", FALSE)
      print == InternalMethodValue(environment, <<"value">>, "print", FALSE)
      printf == InternalMethodValue(environment, <<"value">>, "printf", TRUE)
      System == ClassInstanceValue(createMap(<<"out", "in">>,
                  <<ClassInstanceValue(createMap(<<"println", "print", "printf">>,
                                                 <<println, print, printf>>)),
                    ClassInstanceValue(<<>>)>>))
      Scanner == InternalClassValue(<<>>,
                   createMap(<<"nextLine", "nextInt", "nextFloat">>,
                     <<InternalMethodValue(environment, <<>>, "nextLine", FALSE),
                       InternalMethodValue(environment, <<>>, "nextInt", FALSE),
                       InternalMethodValue(environment, <<>>, "nextFloat", FALSE)>>))
      java == PackageValue(createMap(<<"util">>,
                <<PackageValue(createMap(<<"Scanner">>, <<Scanner>>))>>))
  IN  setValue(setValue(<<Environment(0)>>, environment, "System", System),
               environment, "java", java)

\* newLineify: every backslash-n pair becomes a line feed
newLineify(str) ==
  CASE str = "a\\nb" -> "a\nb"
    [] str = "\\n" -> "\n"
    [] OTHER -> str

\* value.value handed to newLineify: str.replace exists on a string only
stringOf(value) ==
  IF value.tag \in {"Number", "null", "undefined"} THEN Throw("TypeError")
  ELSE toString(value)

\* values.map((value) => value.toString()), joined as util.format joins the
\* arguments that no placeholder of the format takes
RECURSIVE joinStrings(_, _, _)
joinStrings(values, k, joined) ==
  IF k > Len(values) THEN Return(joined)
  ELSE IF ~toString(values[k]).ok THEN toString(values[k])
  ELSE joinStrings(values, k + 1, joined \o " " \o toString(values[k]).value)

\* util.format(format.value, ...strings), for a format without placeholders
format(args) ==
  IF args = <<>> \/ args[1].tag \in {"null", "undefined"} THEN Throw("TypeError")
  ELSE joinStrings(args, 2, toString(args[1]).value)

\* _parseInt(str, 10) and _parseFloat(str) of the lines of InputLine
parseNumber(str) ==
  CASE str = "7" -> Rat(7, 1)
    [] OTHER -> Rat(0, 1)

\* delay(ms): a promise that a timer resolves
delay(m, ms) ==
  [m EXCEPT !.promises = Append(@, PendingPromise),
            !.timers = Append(@, [promise |-> Len(m.promises) + 1, ms |-> ms])]

\* getInput(): a promise whose resolve becomes one more "data" listener
getInput(m) ==
  [m EXCEPT !.promises = Append(@, PendingPromise),
            !.listeners = Append(@, Len(m.promises) + 1)]

\* the implementation of an InternalMethodValue, activation f
ImplementationRun(m, f) ==
  LET frame == m.frames[f]
      name == frame.node.type
  IN  CASE name = "println" ->
             IF stringOf(frame.args[1]).ok
             THEN Finish(Write(m, frame.chain,
                               newLineify(stringOf(frame.args[1]).value) \o "\n"),
                         f, Return(NullValue))
             ELSE Finish(m, f, stringOf(frame.args[1]))
        [] name \in {"print", "printf"} ->
             LET text == IF name = "print" THEN stringOf(frame.args[1])
                         ELSE format(frame.args)
             IN  IF frame.pc = "resume" THEN Finish(m, f, Return(NullValue))
                 ELSE IF text.ok
                 THEN Suspend(delay(Write(m, frame.chain, newLineify(text.value)), 120),
                              f, PromiseObject(Len(m.promises) + 1), "resume")
                 ELSE Finish(m, f, text)
        [] name \in {"nextLine", "nextInt", "nextFloat"} ->
             IF frame.pc = "start"
             THEN Suspend(getInput(m), f, PromiseObject(Len(m.promises) + 1), "resume")
             ELSE Finish(m, f, Return(IF name = "nextLine"
                                      THEN StringValue(m.ret.value.str)
                                      ELSE NumberValue(parseNumber(m.ret.value.str))))

(***************************************************************************)
(* The event loop: promise jobs, timers and stdin.                         *)
(***************************************************************************)
\* the element function of Promise.all
ResolveElement(m, job) ==
  LET all == m.promises[job.target] IN
  IF all.state # "pending" THEN m
  ELSE IF ~job.ok THEN Settle(m, job.target, FALSE, job.value)
  ELSE IF all.remaining = 1
  THEN Settle(m, job.target, TRUE, ArrayOf([all.items EXCEPT ![job.index] = job.value]))
  ELSE [m EXCEPT !.promises[job.target].items[job.index] = job.value,
                 !.promises[job.target].remaining = @ - 1]

\* the oldest promise job runs
RunJob(m, job) ==
  CASE job.kind = "resume" ->
         [m EXCEPT !.stack = <<job.frame>>,
                   !.ret = [ok |-> job.ok, value |-> job.value]]
    [] job.kind = "element" -> ResolveElement(m, job)
    [] job.kind = "thenable" ->
         PromiseThen(m, job.source, Reaction("adopt", 0, job.target, 0))
    [] job.kind = "adopt" -> Settle(m, job.target, job.ok, job.value)

\* the "data" event: every listener resolves its promise with the line
RECURSIVE emitData(_, _, _)
emitData(m, line, k) ==
  IF k > Len(m.listeners) THEN m
  ELSE emitData(Settle(m, m.listeners[k], TRUE, [tag |-> "string", str |-> line]),
                line, k + 1)

\* a promise was rejected and nothing reacts to it
UnhandledRejection(promises) ==
  \E p \in 1..Len(promises) :
    promises[p].state = "rejected" /\ ~promises[p].handled

(***************************************************************************)
(* State.                                                                  *)
(***************************************************************************)
VARIABLES
  tokens,             \* Parser.tokens
  currentTokenIndex,  \* Parser.currentTokenIndex
  statements,         \* parseRootLevel: the statements pushed so far; main(): the program
  parserState,        \* "none" (no Parser yet), "parsing", "returned" or "thrown"
  lastStatement,      \* the last parseStatement call: where it began, its outcome
  envs,               \* the Environment objects
  frames,             \* the activations of main() and of the async functions
  stack,              \* the call stack, the running activation last
  promises,           \* the Promise objects
  microtasks,         \* the promise job queue
  timers,             \* the pending delay() timers
  listeners,          \* the "data" listeners of stdin
  stdin,              \* the number of lines stdin has delivered
  output,             \* what was written to stdout
  ret,                \* what the running activation has just received
  trace,              \* the side effects so far
  crashed,            \* the process died of an unhandled rejection
  input,              \* Lexer.input, a sequence of characters
  currentCharacterIndex, \* Lexer.currentCharacterIndex
  lexerState,         \* "lexing", "string" (inside string()), "returned" or "thrown"
  literal,            \* string(): the characters of the literal read so far
  iterations          \* the loop iterations lex() and string() have run

parserVars == <<tokens, currentTokenIndex, statements, parserState, lastStatement>>
machineVars ==
  <<envs, frames, stack, promises, microtasks, timers, listeners, stdin, output,
    ret, trace, crashed>>
lexerVars == <<input, currentCharacterIndex, lexerState, literal, iterations>>
vars == <<lexerVars, parserVars, machineVars>>

\* the machine of the current state
Machine ==
  [envs |-> envs, frames |-> frames, stack |-> stack, promises |-> promises,
   microtasks |-> microtasks, timers |-> timers, listeners |-> listeners,
   stdin |-> stdin, output |-> output, ret |-> ret, trace |-> trace]

\* the machine of the next state
Becomes(m) ==
  /\ envs' = m.envs
  /\ frames' = m.frames
  /\ stack' = m.stack
  /\ promises' = m.promises
  /\ microtasks' = m.microtasks
  /\ timers' = m.timers
  /\ listeners' = m.listeners
  /\ stdin' = m.stdin
  /\ output' = m.output
  /\ ret' = m.ret
  /\ trace' = m.trace

\* lex() has returned the tokens; the text it read is not kept
Lexed ==
  /\ input = <<>>
  /\ currentCharacterIndex = 0
  /\ lexerState = "returned"
  /\ literal = ""
  /\ iterations = 0

\* nothing runs yet
Idle ==
  /\ envs = <<>>
  /\ frames = <<>>
  /\ stack = <<>>
  /\ promises = <<>>
  /\ microtasks = <<>>
  /\ timers = <<>>
  /\ listeners = <<>>
  /\ stdin = 0
  /\ output = <<>>
  /\ ret = Return(Undefined)
  /\ trace = <<>>
  /\ crashed = FALSE

(***************************************************************************)
(* Token streams handed to the parser.                                     *)
(***************************************************************************)
\* all sequences over S of length 0..n
SeqsUpTo(S, n) == UNION {[1..k -> S] : k \in 0..n}

StatementAlphabet ==
  {Id("x"), SEMICOLON, ASSIGN, DOT, LPAREN, RPAREN, LBRACKET, RBRACKET, Num("2.")}

\* free streams of statement tokens
StatementStreams == SeqsUpTo(StatementAlphabet, MaxStmtLen) \ {<<>>}

\* the statements the specification names
NamedStreams ==
  { <<Id("Foo"), Id("x"), SEMICOLON>>,
    <<Id("foo"), DOT, Id("bar"), LPAREN, RPAREN, SEMICOLON>>,
    <<Id("Foo"), Id("x"), ASSIGN, Num("2."), PLUS, Num("3."), SEMICOLON>>,
    <<Id("Foo"), LBRACKET, RBRACKET, Id("x"), ASSIGN, Id("y"), SEMICOLON,
      Id("x"), ASSIGN, Id("y"), SEMICOLON>> }

\* f ( <free run> ) ;
ArgumentStreams ==
  { <<Id("f"), LPAREN>> \o run \o <<RPAREN, SEMICOLON>> :
      run \in SeqsUpTo({Id("a"), Id("b"), COMMA}, MaxListLen) }

\* import <free run> ;
ImportStreams ==
  { <<Kw("import")>> \o run \o <<SEMICOLON>> :
      run \in SeqsUpTo({Id("a"), Id("b"), DOT, STAR}, MaxPathLen + 2) }

\* class C { [static] T m ( <free run> ) { } }
ParameterStreams ==
  { <<Kw("class"), Id("C"), LBRACE>> \o head \o <<Id("T"), Id("m"), LPAREN>>
      \o run \o <<RPAREN, LBRACE, RBRACE, RBRACE>> :
      head \in {<<>>, <<Id("static")>>, <<Id("public"), Id("static")>>},
      run \in SeqsUpTo({Id("T"), Id("a"), COMMA}, MaxListLen + 1) }

\* parameter lists that repeat a name:  class C { T m(T a, T a) { } }  and
\* class C { static T m(T a, T b, T a) { } }
RepeatedParameterStreams ==
  { <<Kw("class"), Id("C"), LBRACE, Id("T"), Id("m"), LPAREN,
      Id("T"), Id("a"), COMMA, Id("T"), Id("a"), RPAREN, LBRACE, RBRACE, RBRACE>>,
    <<Kw("class"), Id("C"), LBRACE, Id("static"), Id("T"), Id("m"), LPAREN,
      Id("T"), Id("a"), COMMA, Id("T"), Id("b"), COMMA, Id("T"), Id("a"),
      RPAREN, LBRACE, RBRACE, RBRACE>> }

TokenStreams ==
  StatementStreams \cup NamedStreams \cup ArgumentStreams \cup ImportStreams
    \cup ParameterStreams \cup RepeatedParameterStreams

NoCall == [from |-> 0, outcome |-> [ok |-> FALSE, idx |-> 0, node |-> [type |-> "none"]]]

\* new Parser(tokens)
InitParse ==
  /\ Lexed
  /\ tokens \in TokenStreams
  /\ currentTokenIndex = 0
  /\ statements = <<>>
  /\ parserState = "parsing"
  /\ lastStatement = NoCall
  /\ Idle

\* parseRootLevel: one iteration of the while loop, statements.push(parseStatement())
ParseRootLevelStep ==
  /\ parserState = "parsing"
  /\ currentTokenIndex < Len(tokens)
  /\ LET outcome == parseStatement(tokens, currentTokenIndex) IN
     /\ lastStatement' = [from |-> currentTokenIndex, outcome |-> outcome]
     /\ currentTokenIndex' = outcome.idx
     /\ statements' = IF outcome.ok THEN Append(statements, outcome.node) ELSE statements
     /\ parserState' = IF outcome.ok THEN "parsing" ELSE "thrown"
  /\ UNCHANGED <<lexerVars, tokens, machineVars>>

\* parseRootLevel: the loop ends, return statements
ParseRootLevelReturn ==
  /\ parserState = "parsing"
  /\ currentTokenIndex >= Len(tokens)
  /\ parserState' = "returned"
  /\ UNCHANGED <<lexerVars, tokens, currentTokenIndex, statements, lastStatement,
                 machineVars>>

NextParse == ParseRootLevelStep \/ ParseRootLevelReturn

SpecParse == InitParse /\ [][NextParse]_vars

(***************************************************************************)
(* Lexer.lex (lexer.ts), one step per iteration of its loops.              *)
(***************************************************************************)
\* longest input text
MaxInputLen == 3
\* most loop iterations followed on one input
MaxIterations == 6

\* the characters the inputs are made of: letters, a digit, a blank, the
\* quote, two symbols and a character symbolMapping does not know
Alphabet == {"i", "f", "1", " ", "\"", ";", ".", "$"}

\* new Lexer(input); the Parser is built once lex() has returned
InitLex ==
  /\ \E n \in 0..MaxInputLen : input \in [1..n -> Alphabet]
  /\ currentCharacterIndex = 0
  /\ tokens = <<>>
  /\ lexerState = "lexing"
  /\ literal = ""
  /\ iterations = 0
  /\ currentTokenIndex = 0
  /\ statements = <<>>
  /\ parserState = "none"
  /\ lastStatement = NoCall
  /\ Idle

\* identifier() or number() has pushed its token, or has raised an error
Lexes(result) ==
  /\ currentCharacterIndex' = result.idx
  /\ tokens' = IF result.ok THEN Append(tokens, result.node) ELSE tokens
  /\ lexerState' = IF result.ok THEN "lexing" ELSE "thrown"
  /\ literal' = literal

\* lex(): one iteration of the while loop.  string() goes on in the steps of
\* its own loop; a character that symbolMapping does not know changes nothing
LexIteration ==
  /\ lexerState = "lexing"
  /\ currentCharacterIndex < Len(input)
  /\ iterations < MaxIterations
  /\ iterations' = iterations + 1
  /\ input' = input
  /\ LET currentCharacter == CharacterAt(input, currentCharacterIndex) IN
     IF isWhitespace(currentCharacter)
     THEN /\ currentCharacterIndex' = whitespace(input, currentCharacterIndex)
          /\ UNCHANGED <<tokens, lexerState, literal>>
     ELSE IF isAlphabetic(currentCharacter)
     THEN Lexes(identifier(input, currentCharacterIndex))
     ELSE IF isNumeric(currentCharacter)
     THEN Lexes(number(input, currentCharacterIndex))
     ELSE IF currentCharacter = "\""
     THEN /\ currentCharacterIndex' = currentCharacterIndex + 1
          /\ literal' = ""
          /\ lexerState' = "string"
          /\ tokens' = tokens
     ELSE IF symbolMapping(currentCharacter) # "undefined"
     THEN /\ tokens' = Append(tokens, Tok(symbolMapping(currentCharacter),
                                          currentCharacter))
          /\ currentCharacterIndex' = currentCharacterIndex + 1
          /\ UNCHANGED <<lexerState, literal>>
     ELSE UNCHANGED <<tokens, currentCharacterIndex, lexerState, literal>>
  /\ UNCHANGED <<currentTokenIndex, statements, parserState, lastStatement, machineVars>>

\* string(): one iteration of the while loop; past the end of the input
\* input[i] is undefined, which is not the quote and is appended as text
StringIteration ==
  /\ lexerState = "string"
  /\ CharacterAt(input, currentCharacterIndex) # "\""
  /\ iterations < MaxIterations
  /\ iterations' = iterations + 1
  /\ literal' = literal \o CharacterAt(input, currentCharacterIndex)
  /\ currentCharacterIndex' = currentCharacterIndex + 1
  /\ UNCHANGED <<input, tokens, lexerState, currentTokenIndex, statements,
                 parserState, lastStatement, machineVars>>

\* string(): the loop has met the closing quote
StringEnd ==
  /\ lexerState = "string"
  /\ CharacterAt(input, currentCharacterIndex) = "\""
  /\ tokens' = Append(tokens, Str(literal))
  /\ currentCharacterIndex' = currentCharacterIndex + 1
  /\ lexerState' = "lexing"
  /\ literal' = ""
  /\ UNCHANGED <<input, iterations, currentTokenIndex, statements, parserState,
                 lastStatement, machineVars>>

\* lex(): the loop ends, return this.tokens
LexReturn ==
  /\ lexerState = "lexing"
  /\ currentCharacterIndex >= Len(input)
  /\ lexerState' = "returned"
  /\ UNCHANGED <<input, currentCharacterIndex, literal, iterations, parserVars,
                 machineVars>>

NextLex == LexIteration \/ StringIteration \/ StringEnd \/ LexReturn

SpecLex == InitLex /\ [][NextLex]_vars

(***************************************************************************)
(* Programs, as the lexer's tokens.                                        *)
(***************************************************************************)
\* a . b . c
Name(path) ==
  [k \in 1..(2 * Len(path) - 1) |-> IF k % 2 = 1 THEN Id(path[(k + 1) \div 2]) ELSE DOT]

\* callee ( arguments )
CallOf(callee, arguments) == callee \o <<LPAREN>> \o arguments \o <<RPAREN>>

\* callee ( arguments ) ;
CallStatement(callee, arguments) == CallOf(callee, arguments) \o <<SEMICOLON>>

\* name = expression ;
AssignStatement(name, expression) == <<Id(name), ASSIGN>> \o expression \o <<SEMICOLON>>

\* String name = expression ;
DeclareStatement(name, expression) ==
  <<Id("String"), Id(name), ASSIGN>> \o expression \o <<SEMICOLON>>

\* static void name ( String parameter ) { body }
StaticMethod(name, parameter, body) ==
  <<Id("static"), Id("void"), Id(name), LPAREN, Id("String"), Id(parameter),
    RPAREN, LBRACE>> \o body \o <<RBRACE>>

\* class name { methods }
Class(name, methods) == <<Kw("class"), Id(name), LBRACE>> \o methods \o <<RBRACE>>

\* class Main { static void main(String args) { body } }
MainClass(body) == Class("Main", StaticMethod("main", "args", body))

Println(expression) == CallStatement(Name(<<"System", "out", "println">>), expression)
PrintCall(expression) == CallStatement(Name(<<"System", "out", "print">>), expression)

\* new callee ( arguments )
NewExpression(callee, arguments) == <<Kw("new")>> \o CallOf(callee, arguments)

\* statements of a method body whose evaluation takes different numbers of
\* promise jobs, timers included
BodyStatements ==
  { Println(<<Str("a")>>),
    PrintCall(<<Str("b")>>),
    AssignStatement("x", <<Num("1.")>>),
    AssignStatement("y", <<Str("s"), PLUS, Num("1.")>>) }

\* a main method of two statements
TwoStatementPrograms == { MainClass(s1 \o s2) : s1, s2 \in BodyStatements }

\* r = a op1 b op2 c ;  in the main method
Operands == {<<"2.", "3.", "4.">>, <<"8.", "3.", "2.">>, <<"5.", "2.", "3.">>}
Operators == {PLUS, MINUS, STAR, SLASH, PERCENT}
ArithmeticSource(abc, op1, op2) ==
  MainClass(AssignStatement("r",
    <<Num(abc[1]), op1, Num(abc[2]), op2, Num(abc[3])>>))
ArithmeticPrograms ==
  { ArithmeticSource(abc, op1, op2) : abc \in Operands, op1 \in Operators,
                                       op2 \in Operators }

\* class A's method m reads v, which the root environment (where A is
\* declared) and the environment of main (where m is called) bind differently
ScopeSource(declaring, site) ==
  Class("A", StaticMethod("m", "p", AssignStatement("r", <<Id("v")>>)))
    \o declaring
    \o MainClass(site \o CallStatement(Name(<<"A", "m">>), <<Id("v")>>)
                      \o AssignStatement("x", <<Id("p")>>))
ScopePrograms ==
  { ScopeSource(declaring, site) :
      declaring \in {<<>>, AssignStatement("v", <<Str("declaring")>>)},
      site \in {DeclareStatement("v", <<Str("site")>>),
                AssignStatement("v", <<Str("site")>>)} }

\* calls with zero, one and two arguments of methods of one and two parameters
\* and of the host methods println (one parameter) and printf (varArgs)
ArgumentLists == {<<>>, <<Str("a")>>, <<Str("a"), COMMA, Str("b")>>}
Callees ==
  { Name(<<"A", "one">>), Name(<<"A", "two">>),
    Name(<<"System", "out", "println">>), Name(<<"System", "out", "printf">>) }
ArityPrograms ==
  { Class("A", StaticMethod("one", "p", AssignStatement("r", <<Id("p")>>))
               \o <<Id("static"), Id("void"), Id("two"), LPAREN, Id("String"), Id("p"),
                    COMMA, Id("String"), Id("q"), RPAREN, LBRACE>>
               \o AssignStatement("r", <<Id("q")>>) \o <<RBRACE>>)
      \o MainClass(CallStatement(callee, arguments)) :
      callee \in Callees, arguments \in ArgumentLists }

\* a scanner read; the call of a value that is not callable; a class instance
OtherPrograms ==
  { <<Kw("import")>> \o Name(<<"java", "util">>) \o <<DOT, STAR, SEMICOLON>>
      \o MainClass(DeclareStatement("s",
                     NewExpression(<<Id("Scanner")>>, Name(<<"System", "in">>)))
                   \o AssignStatement("l", CallOf(Name(<<"s", "nextLine">>), <<>>))),
    MainClass(CallStatement(<<Id("args")>>, <<>>)),
    MainClass(AssignStatement("o", NewExpression(<<Id("Main")>>, <<>>))),
    AssignStatement("x", <<Num("1.")>>) }

\* class A { static void one(String p) { r = p; }
\*           static void two(String p, String q) { r = q; } }
ClassA ==
  Class("A", StaticMethod("one", "p", AssignStatement("r", <<Id("p")>>))
             \o <<Id("static"), Id("void"), Id("two"), LPAREN, Id("String"), Id("p"),
                  COMMA, Id("String"), Id("q"), RPAREN, LBRACE>>
             \o AssignStatement("r", <<Id("q")>>) \o <<RBRACE>>)

\* the result of a user-defined method, used: y = "s" + A.one("a");
ResultPrograms ==
  { ClassA \o MainClass(AssignStatement("y",
                <<Str("s"), PLUS>> \o CallOf(Name(<<"A", "one">>), <<Str("a")>>))) }

\* arguments with side effects: A.two(x = first, y = second);
OrderSource(first, second) ==
  ClassA \o MainClass(CallStatement(Name(<<"A", "two">>),
              <<Id("x"), ASSIGN>> \o first \o <<COMMA, Id("y"), ASSIGN>> \o second))
OrderPrograms ==
  { OrderSource(<<Str("a"), PLUS, Str("b")>>, <<Str("c")>>),
    OrderSource(<<Str("a")>>, <<Id("x")>>) }

\* String z; r = left + right;  over a String, a Number and the Null of z
BinaryOperands == {Str("x"), Num("1."), Id("z")}
BinarySource(left, right) ==
  MainClass(<<Id("String"), Id("z"), SEMICOLON>>
            \o AssignStatement("r", <<left, PLUS, right>>))
BinaryPrograms == { BinarySource(left, right) : left, right \in BinaryOperands }

\* String z; n = 1.; o = new Main(); and declarations that take the time in
\* which the assignments complete: z holds Null, n a Number, o an instance
Preamble ==
  LET declaration == <<Id("String"), Id("z"), SEMICOLON>> IN
  declaration \o AssignStatement("n", <<Num("1.")>>)
    \o AssignStatement("o", NewExpression(<<Id("Main")>>, <<>>))
    \o declaration \o declaration \o declaration \o declaration \o declaration
    \o declaration

\* member access and invocation of values of every variant
Accessed ==
  { <<"args">>, <<"n">>, <<"z">>, <<"Main", "main">>, <<"java">>, <<"Main">>,
    <<"System">>, <<"o">> }
Invoked == { <<"args">>, <<"n">>, <<"z">>, <<"java">>, <<"System">>, <<"o">> }
CapabilityPrograms ==
  { MainClass(Preamble \o Name(path \o <<"foo">>) \o <<SEMICOLON>>) : path \in Accessed }
    \cup { MainClass(Preamble \o CallStatement(Name(path), <<>>)) : path \in Invoked }

\* [static] void name ( String p ) { }
Method(static, name) ==
  (IF static THEN <<Id("static")>> ELSE <<>>)
    \o <<Id("void"), Id(name), LPAREN, Id("String"), Id("p"), RPAREN, LBRACE, RBRACE>>

\* class A { one or two methods, static or not, of one name or two }
\* class Main { static void main(String args) { o = new A(); } }
FirstMethods == { Method(static, "a") : static \in BOOLEAN }
SecondMethods ==
  {<<>>} \cup { Method(static, name) : static \in BOOLEAN, name \in {"a", "b"} }
ClassSource(first, second) ==
  Class("A", first \o second)
    \o MainClass(AssignStatement("o", NewExpression(<<Id("A")>>, <<>>)))
ClassPrograms ==
  { ClassSource(first, second) : first \in FirstMethods, second \in SecondMethods }

\* a class with a static main, a main that is not static, or no main; the
\* main binds the name of the class, in lower case, to its parameter
MainKinds == {"static", "instance", "none"}
EntryClass(name, marker, kind) ==
  Class(name,
    IF kind = "none" THEN Method(TRUE, "other")
    ELSE (IF kind = "static" THEN <<Id("static")>> ELSE <<>>)
           \o <<Id("void"), Id("main"), LPAREN, Id("String"), Id("args"), RPAREN, LBRACE>>
           \o AssignStatement(marker, <<Id("args")>>) \o <<RBRACE>>)
EntrySource(kindA, kindB) == EntryClass("A", "a", kindA) \o EntryClass("B", "b", kindB)

\* two classes; A, declared first, declared again without a main; a main of two
\* parameters; no class at all but the host's Scanner
EntryPrograms ==
  { EntrySource(kindA, kindB) : kindA, kindB \in MainKinds }
    \cup { EntrySource("static", "static") \o EntryClass("A", "a", "none"),
           Class("Main", <<Id("static"), Id("void"), Id("main"), LPAREN, Id("String"),
                           Id("p"), COMMA, Id("String"), Id("q"), RPAREN, LBRACE>>
                         \o AssignStatement("a", <<Id("p")>>) \o <<RBRACE>>),
           <<Kw("import")>> \o Name(<<"java", "util">>) \o <<DOT, STAR, SEMICOLON>> }

\* x = 1.; at the root, read by main: r = x;
RootPrograms ==
  { AssignStatement("x", <<Num("1.")>>) \o MainClass(AssignStatement("r", <<Id("x")>>)),
    Println(<<Str("a")>>) \o MainClass(Println(<<Str("b")>>)) }

\* a statement that raises the undefined-variable error, and one after it:
\* r = v; x = 1.;  in main and at the root
ErrorPrograms ==
  LET body == AssignStatement("r", <<Id("v")>>) \o AssignStatement("x", <<Num("1.")>>)
  IN  { MainClass(body), body \o MainClass(Println(<<Str("a")>>)) }

\* import path ;
Import(path) == <<Kw("import")>> \o Name(path) \o <<SEMICOLON>>

\* wildcard imports at the root and, after String z;, in the body of main
StarPaths ==
  { <<"*">>, <<"java", "*">>, <<"java", "util", "*">>, <<"java", "util", "*", "foo">>,
    <<"java", "*", "util", "*">>, <<"*", "java">> }
ImportPrograms ==
  { Import(path) \o MainClass(Println(<<Str("a")>>)) : path \in StarPaths }
    \cup { MainClass(<<Id("String"), Id("z"), SEMICOLON>> \o Import(path)) :
             path \in StarPaths }

\* imports without a wildcard at the root and, after String z;, in the body of
\* main: Packages, a class, an instance, a String, Null and unbound names
PlainPaths ==
  { <<"java">>, <<"java", "util">>, <<"java", "util", "Scanner">>, <<"java", "foo">>,
    <<"foo">>, <<"foo", "util">>, <<"System">>, <<"System", "out", "println">>,
    <<"java", "util", "Scanner", "x">>, <<"z">>, <<"args">> }
PlainImportPrograms ==
  { Import(path) \o MainClass(Println(<<Str("a")>>)) : path \in PlainPaths }
    \cup { MainClass(<<Id("String"), Id("z"), SEMICOLON>> \o Import(path)) :
             path \in PlainPaths }

\* declarations whose initializer is a Package or an unbound name, the declared
\* name then used: String p = java; import p.*;  and  String s = v; r = s;
DeclarationPrograms ==
  { MainClass(DeclareStatement("p", <<Id("java")>>) \o Import(<<"p", "*">>)),
    MainClass(DeclareStatement("s", <<Id("v")>>) \o AssignStatement("r", <<Id("s")>>)),
    MainClass(<<Id("String"), Id("z"), SEMICOLON>>
              \o DeclareStatement("s", <<Str("a")>>)
              \o AssignStatement("r", <<Id("s")>>)) }

\* assignments: a chain, a dotted access and a call on the left, an unbound
\* name on the right
\*   a = b = "v"; java.util = x = "1";    args() = x = "1";    a = b = v;
AssignmentPrograms ==
  { MainClass(AssignStatement("a", <<Id("b"), ASSIGN, Str("v")>>)
              \o Name(<<"java", "util">>) \o <<ASSIGN>>
              \o AssignStatement("x", <<Str("1")>>)),
    MainClass(CallOf(<<Id("args")>>, <<>>) \o <<ASSIGN>>
              \o AssignStatement("x", <<Str("1")>>)),
    MainClass(AssignStatement("a", <<Id("b"), ASSIGN, Id("v")>>)) }

\* a name written by one statement and read by the next, the expression
\* assigned growing deeper:  y = "s"; x = y;   y = "s" + 1.; x = y;
\* y = "s" + 1. + 1.; x = y;   and   String y = "s" + 1.; x = y;
WrittenExpressions ==
  { <<Str("s")>>, <<Str("s"), PLUS, Num("1.")>>,
    <<Str("s"), PLUS, Num("1."), PLUS, Num("1.")>> }
ReadPrograms ==
  { MainClass(AssignStatement("y", written) \o AssignStatement("x", <<Id("y")>>)) :
      written \in WrittenExpressions }
    \cup { MainClass(DeclareStatement("y", <<Str("s"), PLUS, Num("1.")>>)
                     \o AssignStatement("x", <<Id("y")>>)) }

\* two reads of standard input in one body:
\*   import java.util.*;
\*   class Main { static void main(String args) {
\*     String s = new Scanner(System.in); a = s.nextLine(); b = s.nextInt(); } }
InputPrograms ==
  { Import(<<"java", "util", "*">>)
      \o MainClass(DeclareStatement("s",
                     NewExpression(<<Id("Scanner")>>, Name(<<"System", "in">>)))
                   \o AssignStatement("a", CallOf(Name(<<"s", "nextLine">>), <<>>))
                   \o AssignStatement("b", CallOf(Name(<<"s", second>>), <<>>))) :
      second \in {"nextLine", "nextInt"} }

\* a String on the left of every operator:  r = "x" - "y";  r = "x" * 1.;  ...
StringOperatorSource(operator, right) ==
  MainClass(AssignStatement("r", <<Str("x"), operator, right>>))
StringOperatorPrograms ==
  { StringOperatorSource(operator, right) :
      operator \in Operators, right \in {Str("y"), Num("1.")} }

\* the programs that are run
ProgramSources ==
  TwoStatementPrograms \cup ArithmeticPrograms \cup ScopePrograms
    \cup ArityPrograms \cup OtherPrograms \cup ResultPrograms \cup OrderPrograms
    \cup BinaryPrograms \cup CapabilityPrograms \cup ClassPrograms
    \cup EntryPrograms \cup RootPrograms \cup ErrorPrograms \cup ImportPrograms
    \cup PlainImportPrograms \cup DeclarationPrograms \cup AssignmentPrograms
    \cup ReadPrograms \cup InputPrograms \cup StringOperatorPrograms

(***************************************************************************)
(* main() (index.ts) and the run of the program.                           *)
(***************************************************************************)
\* main() after parseRootLevel() and createStandardLibrary(), before the loop
Init ==
  /\ Lexed
  /\ tokens \in ProgramSources
  /\ parseRootLevel(tokens).ok
  /\ statements = parseRootLevel(tokens).node.list \o <<ExecuteMainStatement>>
  /\ currentTokenIndex = Len(tokens)
  /\ parserState = "returned"
  /\ lastStatement = NoCall
  /\ envs = createStandardLibrary
  /\ frames = << [Frame("main", [type |-> "Root", body |-> statements], Undefined,
                        <<>>, 1, Chain(0, 0))
                  EXCEPT !.pc = "visit", !.promise = 1] >>
  /\ stack = <<1>>
  /\ promises = <<PendingPromise>>
  /\ microtasks = <<>>
  /\ timers = <<>>
  /\ listeners = <<>>
  /\ stdin = 0
  /\ output = <<>>
  /\ ret = Return(Undefined)
  /\ trace = <<>>
  /\ crashed = FALSE

\* the running activation is of this kind, at a node of one of these types
Running(kind, types) ==
  /\ ~crashed
  /\ stack # <<>>
  /\ frames[stack[Len(stack)]].kind = kind
  /\ frames[stack[Len(stack)]].node.type \in types

\* the running activation takes the step
Step(step(_, _)) ==
  /\ Becomes(step(Machine, stack[Len(stack)]))
  /\ UNCHANGED <<lexerVars, parserVars, crashed>>

\* for (const statement of statements) statement.visit(interpreter)
MainVisit == Running("main", {"Root"}) /\ Step(RunBody)

EvaluateIdentifier == Running("evaluate", {"Identifier"}) /\ Step(IdentifierEvaluate)
EvaluateLiteral == Running("evaluate", {"Literal"}) /\ Step(LiteralEvaluate)
EvaluateAssignment == Running("evaluate", {"Assignment"}) /\ Step(AssignmentEvaluate)
EvaluateBinary == Running("evaluate", {"Binary"}) /\ Step(BinaryEvaluate)
EvaluateDotAccess == Running("evaluate", {"DotAccess"}) /\ Step(DotAccessEvaluate)
EvaluateMethodCall == Running("evaluate", {"MethodCall"}) /\ Step(MethodCallEvaluate)

CallUserDefinedMethod ==
  Running("callFunction", {"UserDefinedMethod"}) /\ Step(UserDefinedMethodCall)
CallInternalMethod ==
  Running("callFunction", {"InternalMethod"}) /\ Step(InternalMethodCall)
CallClass ==
  Running("callFunction", {"InternalClass", "UserDefinedClass"}) /\ Step(ClassCall)
CallNotCallable ==
  /\ Running("callFunction", {"String", "Number", "Null", "Package", "ClassInstance",
                               "UserDefinedClassInstance"})
  /\ Step(NotCallable)

RunImplementation ==
  /\ Running("implementation", {"println", "print", "printf", "nextLine", "nextInt",
                                 "nextFloat"})
  /\ Step(ImplementationRun)

\* the call stack is empty: the oldest promise job runs
RunMicrotask ==
  /\ ~crashed
  /\ stack = <<>>
  /\ microtasks # <<>>
  /\ Becomes(RunJob([Machine EXCEPT !.microtasks = Tail(@)], Head(microtasks)))
  /\ UNCHANGED <<lexerVars, parserVars, crashed>>

\* no promise job is left: the oldest timer fires and resolves its promise
TimerFires ==
  /\ ~crashed
  /\ stack = <<>>
  /\ microtasks = <<>>
  /\ timers # <<>>
  /\ Becomes(Settle([Machine EXCEPT !.timers = Tail(@)], Head(timers).promise,
                    TRUE, Undefined))
  /\ UNCHANGED <<lexerVars, parserVars, crashed>>

\* the lines of the standard input
MaxLines == 2
InputLine(k) == IF k = 1 THEN "hello" ELSE "7"

\* no promise job is left: stdin, which has a listener, delivers a line
StdinData ==
  /\ ~crashed
  /\ stack = <<>>
  /\ microtasks = <<>>
  /\ listeners # <<>>
  /\ stdin < MaxLines
  /\ Becomes(emitData([Machine EXCEPT !.stdin = @ + 1], InputLine(stdin + 1), 1))
  /\ UNCHANGED <<lexerVars, parserVars, crashed>>

\* the promise jobs are done and a rejection is unhandled: the process dies
\* (a Node.js that only warns goes on instead)
Crash ==
  /\ ~crashed
  /\ stack = <<>>
  /\ microtasks = <<>>
  /\ UnhandledRejection(promises)
  /\ crashed' = TRUE
  /\ UNCHANGED <<lexerVars, parserVars, envs, frames, stack, promises, microtasks, timers,
                 listeners, stdin, output, ret, trace>>

Next ==
  \/ MainVisit
  \/ EvaluateIdentifier
  \/ EvaluateLiteral
  \/ EvaluateAssignment
  \/ EvaluateBinary
  \/ EvaluateDotAccess
  \/ EvaluateMethodCall
  \/ CallUserDefinedMethod
  \/ CallInternalMethod
  \/ CallClass
  \/ CallNotCallable
  \/ RunImplementation
  \/ RunMicrotask
  \/ TimerFires
  \/ StdinData
  \/ Crash

Spec == Init /\ [][Next]_vars

(***************************************************************************)
(* Environment.get and the evaluation of an identifier, over environment   *)
(* chains drawn from a bounded set.                                        *)
(***************************************************************************)
\* the longest chain of environments
MaxDepth == 3

LookupNames == {"x", "y"}
LookupValues == {NumberValue(Rat(1, 1)), NumberValue(Rat(2, 1))}

\* the Maps that bind some of the names, in either insertion order
LookupMaps ==
  { map \in SeqsUpTo([key : LookupNames, value : LookupValues], Cardinality(LookupNames)) :
      \A j, k \in 1..Len(map) : j # k => map[j].key # map[k].key }

\* the heap of one chain: environment k is the parent of environment k + 1
EnvironmentChain(maps) ==
  [k \in 1..Len(maps) |-> [parent |-> k - 1, underlying |-> maps[k]]]

\* identifier.evaluate(interpreter) is called, interpreter.environment the
\* innermost environment of a chain
InitEnv ==
  /\ Lexed
  /\ tokens = <<>>
  /\ statements = <<>>
  /\ currentTokenIndex = 0
  /\ parserState = "returned"
  /\ lastStatement = NoCall
  /\ \E depth \in 1..MaxDepth : \E maps \in [1..depth -> LookupMaps] :
       envs = EnvironmentChain(maps)
  /\ \E name \in LookupNames :
       frames = << [Evaluate(IdentifierExpression(Id(name)), Len(envs), Chain(0, 0))
                    EXCEPT !.promise = 1] >>
  /\ stack = <<1>>
  /\ promises = <<PendingPromise>>
  /\ microtasks = <<>>
  /\ timers = <<>>
  /\ listeners = <<>>
  /\ stdin = 0
  /\ output = <<>>
  /\ ret = Return(Undefined)
  /\ trace = <<>>
  /\ crashed = FALSE

NextEnv == EvaluateIdentifier

SpecEnv == InitEnv /\ [][NextEnv]_vars


(***************************************************************************)
(* Properties of the parser.                                               *)
(***************************************************************************)
\* a parseStatement call has been made
StatementParsed == lastStatement.outcome.node.type # "none"

\* tokens[i] is the base of a type with n "[" "]" pairs after it
TypeWithDims(toks, i, n) ==
  /\ i + 2 * n < Len(toks)
  /\ TokenAt(toks, i).type = "IDENTIFIER"
  /\ \A j \in 0..(n - 1) :
       /\ TokenAt(toks, i + 1 + 2 * j).type = "LBRACKET"
       /\ TokenAt(toks, i + 2 + 2 * j).type = "RBRACKET"

\* an expression starts at tokens[i] and is followed by ";"
ExpressionThenSemicolon(toks, i) ==
  LET e == parseExpression(toks, i) IN
  e.ok /\ e.idx < Len(toks) /\ TokenAt(toks, e.idx).type = "SEMICOLON"

\* the tokens from i on match  type IDENTIFIER ;  or  type IDENTIFIER = expression ;
MatchesVariableDeclaration(toks, i) ==
  \E n \in 0..Len(toks) :
    /\ TypeWithDims(toks, i, n)
    /\ LET p == i + 1 + 2 * n IN
       /\ p + 1 < Len(toks)
       /\ TokenAt(toks, p).type = "IDENTIFIER"
       /\ \/ TokenAt(toks, p + 1).type = "SEMICOLON"
          \/ /\ TokenAt(toks, p + 1).type = "ASSIGN"
             /\ ExpressionThenSemicolon(toks, p + 2)

\* the statement at tokens[i] starts with neither import nor class
PlainStatementAt(toks, i) ==
  ~(TokenAt(toks, i).type = "KEYWORD" /\ TokenAt(toks, i).keyword \in {"import", "class"})

\* C2: for a statement that starts with neither `import` nor `class`,
\* parseStatement returns a variable declaration exactly when the tokens match
\* `type IDENTIFIER ;` or `type IDENTIFIER = expression ;`, with the outcome and
\* cursor of the direct parse of a declaration; otherwise its outcome (AST or
\* error) and cursor are those of parseExpressionStatement from the same start.
C2_Disambiguation ==
  (StatementParsed /\ PlainStatementAt(tokens, lastStatement.from)) =>
    LET from == lastStatement.from
        outcome == lastStatement.outcome
        declared == outcome.ok /\ outcome.node.type = "VariableDeclaration"
    IN /\ declared <=> MatchesVariableDeclaration(tokens, from)
       /\ declared => outcome = parseVariableDeclaration(tokens, from)
       /\ ~declared => outcome = parseExpressionStatement(tokens, from)

\* C2 witness: `Foo[] x = y; x = y;` parsed to a declaration followed, after a
\* rolled-back attempt, by an expression statement
C2_Witness ==
  /\ Len(tokens) = 11
  /\ Len(statements) = 2
  /\ statements[1].type = "VariableDeclaration"
  /\ statements[2].type = "ExpressionStatement"
  /\ lastStatement.from = 7
  /\ currentTokenIndex = 11

\* the free run of an argument stream  f ( run ) ;
ArgumentRun == SubSeq(tokens, 3, Len(tokens) - 2)

\* run is empty or expressions separated by single commas
CommaSeparated(run) ==
  \/ run = <<>>
  \/ /\ Len(run) % 2 = 1
     /\ \A k \in 1..Len(run) :
          IF k % 2 = 1 THEN run[k].type = "IDENTIFIER" ELSE run[k].type = "COMMA"

\* the identifiers of a run, in order
RECURSIVE IdentifiersOf(_)
IdentifiersOf(run) ==
  IF run = <<>> THEN <<>>
  ELSE IF Head(run).type = "IDENTIFIER"
       THEN <<IdentifierExpression(Head(run))>> \o IdentifiersOf(Tail(run))
       ELSE IdentifiersOf(Tail(run))

\* C5: a call's argument list is accepted only if it is empty or consists of
\* expressions separated by single commas (`f(a b)` and `f(a,)` are syntax
\* errors), and an accepted list yields one argument per expression, in order.
C5_ArgumentListCommas ==
  (StatementParsed /\ tokens \in ArgumentStreams) =>
    /\ lastStatement.outcome.ok => CommaSeparated(ArgumentRun)
    /\ lastStatement.outcome.ok =>
         lastStatement.outcome.node.expression.args = IdentifiersOf(ArgumentRun)

\* C6: in every import statement the parser accepts, `*` can only be the last
\* element of the parsed path.
C6_StarTerminatesPath ==
  (StatementParsed /\ lastStatement.outcome.ok
     /\ lastStatement.outcome.node.type = "Import") =>
    LET path == lastStatement.outcome.node.path IN
    \A k \in 1..Len(path) : path[k] = "*" => k = Len(path)

\* the parameter runs  T a , T b , ...  of n pairs
ParameterRun(names) ==
  [k \in 1..(IF names = <<>> THEN 0 ELSE 3 * Len(names) - 1) |->
     IF k % 3 = 1 THEN Id("T")
     ELSE IF k % 3 = 2 THEN Id(names[(k + 1) \div 3]) ELSE COMMA]

\* the parameters parseParameterList is to build from them
ParametersOf(names) ==
  [k \in 1..Len(names) |->
     [type |-> [base |-> Id("T"), dim |-> 0], name |-> Id(names[k])]]

ParameterNames == {<<>>, <<"a">>, <<"a", "T">>}

\* class C { T m ( run ) { } }
MethodStream(run) ==
  <<Kw("class"), Id("C"), LBRACE, Id("T"), Id("m"), LPAREN>> \o run
    \o <<RPAREN, LBRACE, RBRACE, RBRACE>>

\* C4: a parameter list of zero or more comma-separated (type, name) pairs
\* parses to a MethodDeclaration with exactly those parameters in source
\* order, parseParameterList leaving the cursor just after the closing `)`.
C4_ParameterList ==
  \A names \in ParameterNames :
    (StatementParsed /\ tokens = MethodStream(ParameterRun(names))) =>
      /\ lastStatement.outcome.ok
      /\ lastStatement.outcome.node.type = "ClassDeclaration"
      /\ Len(lastStatement.outcome.node.methods) = 1
      /\ lastStatement.outcome.node.methods[1].parameters = ParametersOf(names)
      /\ parseParameterList(tokens, 5).idx = 6 + Len(ParameterRun(names)) + 1

(***************************************************************************)
(* Properties of the evaluator.                                            *)
(***************************************************************************)
\* the activations that run a method: the callFunction activations
IsCall(c) == frames[c].kind = "callFunction"
IsUserCall(c) == IsCall(c) /\ frames[c].value.tag = "UserDefinedMethod"
IsMethodCall(c) ==
  IsCall(c) /\ frames[c].value.tag \in {"UserDefinedMethod", "InternalMethod"}

\* C1: within one execution of a user-defined method body the side effects
\* (environment writes, output) of the statements occur in statement order:
\* no effect of a later statement precedes an effect of an earlier one.
C1_StatementsInOrder ==
  \A a, b \in 1..Len(trace) :
    (a < b /\ trace[a].chain.call = trace[b].chain.call
       /\ IsUserCall(trace[a].chain.call)) =>
      trace[a].chain.index <= trace[b].chain.index

\* a op b as BinaryExpression computes it
Apply(operator, a, b) == number_number(operator.type, a, b).value

\* the value of  a op1 b op2 c  where * / % bind tighter than + - and operators
\* of one level associate to the left
Expected(abc, op1, op2) ==
  LET a == NumberValue(parseFloat(abc[1]))
      b == NumberValue(parseFloat(abc[2]))
      c == NumberValue(parseFloat(abc[3]))
  IN  IF op2.type \in {"STAR", "SLASH", "PERCENT"} /\ op1.type \in {"PLUS", "MINUS"}
      THEN Apply(op1, a, Apply(op2, b, c))
      ELSE Apply(op2, Apply(op1, a, b), c)

\* r is bound to value in some environment
Bound(name, value) ==
  \E e \in 1..Len(envs) :
    MapHas(envs[e].underlying, name) /\ MapGet(envs[e].underlying, name) = value

\* every binding of name is to value
BoundOnlyTo(name, value) ==
  \A e \in 1..Len(envs) :
    MapHas(envs[e].underlying, name) => MapGet(envs[e].underlying, name) = value

\* C3: `r = a op1 b op2 c` binds r to the value obtained with * / % binding
\* tighter than + - and equal-precedence operators associating to the left;
\* `2 + 3 * 4` is 14 and `8 - 3 - 2` is 3.
C3_ArithmeticPrecedence ==
  /\ \A abc \in Operands : \A op1, op2 \in Operators :
       tokens = ArithmeticSource(abc, op1, op2) =>
         BoundOnlyTo("r", Expected(abc, op1, op2))
  /\ tokens = ArithmeticSource(<<"2.", "3.", "4.">>, PLUS, STAR) =>
       BoundOnlyTo("r", NumberValue(Rat(14, 1)))
  /\ tokens = ArithmeticSource(<<"8.", "3.", "2.">>, MINUS, MINUS) =>
       BoundOnlyTo("r", NumberValue(Rat(3, 1)))

\* C3 witness: `r = 2 + 3 * 4;` has bound r to 14
C3_Witness ==
  /\ tokens = ArithmeticSource(<<"2.", "3.", "4.">>, PLUS, STAR)
  /\ Bound("r", NumberValue(Rat(14, 1)))

\* the d-th ancestor of an environment, 0 beyond the root
RECURSIVE Ancestor(_, _)
Ancestor(e, d) == IF d = 0 \/ e = 0 THEN e ELSE Ancestor(envs[e].parent, d - 1)

\* the distances at which the chain from environment e binds name
Binders(e, name) ==
  { d \in 0..Len(envs) :
      Ancestor(e, d) # 0 /\ MapHas(envs[Ancestor(e, d)].underlying, name) }

\* the nearest of them
Nearest(e, name) == CHOOSE d \in Binders(e, name) : \A d2 \in Binders(e, name) : d <= d2

\* C7: Environment.get(name) returns the binding of the nearest environment of
\* the chain (the environment itself first, then its ancestors) that binds
\* name, and throws the undefined-variable error exactly when none binds it;
\* the evaluation of an identifier settles with exactly that outcome.
C7_NearestBinding ==
  \A f \in 1..Len(frames) :
    (frames[f].kind = "evaluate" /\ frames[f].node.type = "Identifier") =>
      LET e == frames[f].env
          name == frames[f].node.identifier.lexeme
          result == promises[frames[f].promise]
      IN  /\ Binders(e, name) # {} =>
               /\ get(envs, e, name) =
                    Return(MapGet(envs[Ancestor(e, Nearest(e, name))].underlying, name))
               /\ frames[f].pc = "done" =>
                    /\ result.state = "fulfilled"
                    /\ result.value = get(envs, e, name).value
          /\ Binders(e, name) = {} =>
               /\ get(envs, e, name) = Throw("Undefined variable")
               /\ frames[f].pc = "done" =>
                    /\ result.state = "rejected"
                    /\ result.value = Error("Undefined variable")

\* C7 witness: the name is bound in the innermost environment and, to another
\* value, in an ancestor; the identifier has evaluated to the inner binding
C7_Witness ==
  /\ Len(envs) = MaxDepth
  /\ frames[1].pc = "done"
  /\ frames[1].node.identifier.lexeme = "x"
  /\ Binders(Len(envs), "x") = {1, 2}
  /\ MapGet(envs[Len(envs) - 1].underlying, "x") # MapGet(envs[1].underlying, "x")
  /\ promises[1].value = MapGet(envs[Len(envs) - 1].underlying, "x")

\* the environment a step of the activation may write: that of the call (or of
\* main()) whose body the activation executes a statement of
OwnEnvironment(frame) ==
  IF frame.kind = "evaluate" THEN frames[frame.chain.call].env ELSE frame.env

\* the names the root-level statements of the program bind
RootNames ==
  { statements[k].name.lexeme :
      k \in { j \in 1..Len(statements) :
                statements[j].type \in {"ClassDeclaration", "VariableDeclaration"} } }
    \cup
  { statements[k].expression.left.identifier.lexeme :
      k \in { j \in 1..Len(statements) :
                /\ statements[j].type = "ExpressionStatement"
                /\ statements[j].expression.type = "Assignment"
                /\ statements[j].expression.left.type = "Identifier" } }

\* the names of the standard library and those an import of it adds
LibraryNames == {"System", "java", "util", "Scanner"}

\* a step changes no existing environment but the own one of the running activation
WritesOwnEnvironment ==
  \A e \in 1..Len(envs) :
    envs'[e] # envs[e] =>
      /\ stack # <<>>
      /\ e = OwnEnvironment(frames[stack[Len(stack)]])

\* the root environment, which is the declaring environment of every class of
\* the programs and an ancestor of every caller's, holds what the library and
\* the root-level statements bound, whatever the method bodies declare or assign
RootUntouched ==
  /\ \A k \in 1..Len(envs[1].underlying) :
       envs[1].underlying[k].key \in LibraryNames \cup RootNames
  /\ (tokens \in ScopePrograms /\ MapHas(envs[1].underlying, "v")) =>
       MapGet(envs[1].underlying, "v") = StringValue("declaring")

\* C8: executing a method call never adds, removes or changes a binding in an
\* environment other than the fresh one created for that call: every write of
\* a body statement goes to the environment of the call that runs the body,
\* and the caller's and the declaring environment keep their bindings.
C8_CallWritesOwnEnvironment == []RootUntouched /\ [][WritesOwnEnvironment]_vars

\* C8 witness: main has assigned v in its own environment while the root
\* environment, where v was bound before, still holds the earlier value, and
\* the call of A.m has returned
C8_Witness ==
  /\ Len(envs) >= 3
  /\ MapHas(envs[1].underlying, "v")
  /\ MapGet(envs[1].underlying, "v") = StringValue("declaring")
  /\ MapHas(envs[2].underlying, "v")
  /\ MapGet(envs[2].underlying, "v") = StringValue("site")
  /\ \E c \in 1..Len(frames) :
       IsUserCall(c) /\ frames[c].env = 3 /\ frames[c].pc = "done"

\* the bindings of a new call environment: the parameters, in order
ParameterBindings(method, args) ==
  [k \in 1..Len(method.parameters) |-> [key |-> method.parameters[k], value |-> args[k]]]

\* C9: each invocation of a user-defined method creates a new environment
\* whose parent is the environment the method's class was declared in and
\* binds each parameter to the corresponding argument there; a free name of the
\* body resolves through the declaring chain, never through the call site.
C9_LexicalScope ==
  /\ \A c \in 1..Len(frames) :
       (IsUserCall(c) /\ frames[c].env # 0) =>
         /\ \A c2 \in 1..Len(frames) : (IsCall(c2) /\ c2 # c) => frames[c2].env # frames[c].env
         /\ frames[c].env # frames[1].env
         /\ envs[frames[c].env].parent = frames[c].value.environment
         /\ (frames[c].pc = "visit" /\ frames[c].i = 1) =>
              envs[frames[c].env].underlying =
                ParameterBindings(frames[c].value, frames[c].args)
  /\ tokens \in ScopePrograms => BoundOnlyTo("r", StringValue("declaring"))

\* C9 witness: m, called where v is "site", has read v as the "declaring" of
\* the environment its class was declared in
C9_Witness ==
  /\ tokens \in ScopePrograms
  /\ Bound("p", StringValue("site"))
  /\ Bound("r", StringValue("declaring"))

\* the call passes a number of arguments that is not the number of parameters
\* of a method that is not variadic
ArityMismatch(c) ==
  /\ IsMethodCall(c)
  /\ Len(frames[c].args) # Len(frames[c].value.parameters)
  /\ ~(frames[c].value.tag = "InternalMethod" /\ frames[c].value.varArgs)

\* C10: a method that is not variadic, called with a number of arguments other
\* than its number of parameters, raises the arity error before any
\* environment is created, any parameter bound, any body statement executed or
\* the host function called; a variadic host method is invoked whatever the
\* number of arguments.
C10_ArityChecked ==
  /\ Len(envs) = 1 + Cardinality({c \in 1..Len(frames) : IsCall(c) /\ frames[c].env # 0})
  /\ \A c \in 1..Len(frames) :
       ArityMismatch(c) =>
         /\ frames[c].env = 0
         /\ frames[c].pc \in {"start", "done"}
         /\ \A f \in 1..Len(frames) : frames[f].caller # c
         /\ \A k \in 1..Len(trace) : trace[k].chain.call # c
         /\ frames[c].pc = "done" =>
              /\ promises[frames[c].promise].state = "rejected"
              /\ promises[frames[c].promise].value = Error("Wrong number of arguments")
  /\ \A c \in 1..Len(frames) :
       (IsCall(c) /\ frames[c].value.tag = "InternalMethod" /\ frames[c].value.varArgs
          /\ frames[c].pc # "start") =>
         \E f \in 1..Len(frames) :
           frames[f].caller = c /\ frames[f].kind = "implementation"

\* C10 witness: the two-parameter method was called with one argument and the
\* call has raised the error
C10_Witness ==
  \E c \in 1..Len(frames) :
    /\ ArityMismatch(c)
    /\ frames[c].value.tag = "UserDefinedMethod"
    /\ Len(frames[c].value.parameters) = 2
    /\ Len(frames[c].args) = 1
    /\ frames[c].pc = "done"
    /\ promises[frames[c].promise].state = "rejected"


\* the promise of activation f
Promise(f) == promises[frames[f].promise]

\* C11: every invocation of a user-defined method that passes the arity check
\* results in the Null value, the Value a declared-but-uninitialized variable
\* holds: member access on the result and its invocation raise an error, and it
\* has a textual representation, so that "s" + A.one("a") is a String.
C11_ResultIsNull ==
  /\ \A c \in 1..Len(frames) :
       (IsUserCall(c) /\ ~ArityMismatch(c) /\ Promise(c).state = "fulfilled") =>
         /\ Promise(c).value = NullValue
         /\ ~dotAccess(Promise(c).value, "x").ok
         /\ toString(Promise(c).value) = Return("null")
  /\ \A f \in 1..Len(frames) :
       (tokens \in ResultPrograms /\ frames[f].kind = "evaluate"
          /\ frames[f].node.type = "Binary" /\ frames[f].pc = "done") =>
         /\ Promise(f).state = "fulfilled"
         /\ Promise(f).value = StringValue("snull")


\* the evaluations a call expression c has started: of its callee, the first,
\* and of its arguments
Evaluations(c) ==
  { g \in 1..Len(frames) : frames[g].caller = c /\ frames[g].kind = "evaluate" }

\* the evaluation of argument k of the call expression c
ArgumentEvaluation(c, k) ==
  CHOOSE g \in Evaluations(c) :
    Cardinality({h \in Evaluations(c) : h < g}) = k

\* C12: a call expression evaluates its callee, then its arguments strictly
\* left to right: the evaluation of an argument begins only when the one
\* before it (the callee's, for the first) has completed, and the callee is
\* invoked only when all arguments have their values, passed in source order.
C12_ArgumentsLeftToRight ==
  \A c \in 1..Len(frames) :
    (frames[c].kind = "evaluate" /\ frames[c].node.type = "MethodCall") =>
      /\ \A g, h \in Evaluations(c) : h < g => frames[h].pc = "done"
      /\ \A i \in 1..Len(frames) :
           (frames[i].caller = c /\ IsCall(i)) =>
             /\ Cardinality(Evaluations(c)) = 1 + Len(frames[c].node.args)
             /\ Len(frames[i].args) = Len(frames[c].node.args)
             /\ \A k \in 1..Len(frames[i].args) :
                  /\ frames[ArgumentEvaluation(c, k)].node = frames[c].node.args[k]
                  /\ Promise(ArgumentEvaluation(c, k)).state = "fulfilled"
                  /\ frames[i].args[k] = Promise(ArgumentEvaluation(c, k)).value


\* the textual representation of an operand of BinaryOperands
OperandText(operand) ==
  CASE operand.type = "STRING" -> operand.lexeme
    [] operand.type = "NUMBER" -> NumberToString(parseFloat(operand.lexeme))
    [] OTHER -> "null"

\* the binary expression of the program has been evaluated
BinaryDone(f) ==
  frames[f].kind = "evaluate" /\ frames[f].node.type = "Binary" /\ frames[f].pc = "done"

\* C13: a binary expression with a String operand on either side yields the
\* String of the left operand's text followed by the right operand's
\* ("x" + 1 is "x1", 1 + "x" is "1x"); operands that are neither a String nor
\* both Numbers raise the type error.
C13_StringConcatenation ==
  \A left, right \in BinaryOperands :
    tokens = BinarySource(left, right) =>
      \A f \in 1..Len(frames) :
        BinaryDone(f) =>
          IF "STRING" \in {left.type, right.type}
          THEN /\ Promise(f).state = "fulfilled"
               /\ Promise(f).value = StringValue(OperandText(left) \o OperandText(right))
          ELSE IF left.type = "NUMBER" /\ right.type = "NUMBER"
          THEN Promise(f).state = "fulfilled"
          ELSE /\ Promise(f).state = "rejected"
               /\ Promise(f).value = Error("Unsupported binary expresion types")


\* the variant holds a member of this name
Holds(value, key) ==
  CASE value.tag \in {"Package", "ClassInstance"} -> MapHas(value.underlying, key)
    [] value.tag \in {"UserDefinedClass", "InternalClass"} -> MapHas(value.statics, key)
    [] value.tag = "UserDefinedClassInstance" ->
         key = "$class" \/ MapHas(value.underlying, key)
    [] OTHER -> FALSE

Variants ==
  {"String", "Number", "Null", "Package", "UserDefinedClass", "InternalClass",
   "ClassInstance", "UserDefinedClassInstance", "UserDefinedMethod", "InternalMethod"}

\* the activation is a member access the variant of its parent value does not
\* support
UnsupportedAccess(frame) ==
  /\ frame.kind = "evaluate"
  /\ frame.node.type = "DotAccess"
  /\ frame.value.tag \in Variants
  /\ ~Holds(frame.value, frame.node.identifier.lexeme)

\* the activation is the invocation of a value that is not callable
UnsupportedCall(frame) ==
  /\ frame.kind = "callFunction"
  /\ frame.value.tag \in {"String", "Number", "Null", "Package", "ClassInstance",
                          "UserDefinedClassInstance"}

\* the unsupported operation has raised an error and returned no value
Raised(f) ==
  /\ Promise(f).state = "rejected"
  /\ Promise(f).value.tag = "Error"

\* a step in which an unsupported operation ends leaves the environments and
\* the output as they are
UnsupportedChangesNothing ==
  \A f \in 1..Len(frames) :
    (frames[f].pc # "done" /\ frames'[f].pc = "done"
       /\ (UnsupportedAccess(frames'[f]) \/ UnsupportedCall(frames'[f]))) =>
      /\ envs' = envs
      /\ output' = output
      /\ trace' = trace

UnsupportedRaises ==
  \A f \in 1..Len(frames) :
    /\ (UnsupportedAccess(frames[f]) /\ frames[f].pc = "done") => Raised(f)
    /\ UnsupportedCall(frames[f]) =>
         /\ frames[f].env = 0
         /\ frames[f].pc \in {"start", "done"}
         /\ \A g \in 1..Len(frames) : frames[g].caller # f
         /\ frames[f].pc = "done" => Raised(f)

\* C14: an operation the variant of a Value does not support raises an error,
\* returns no value and changes no state: member access on a String, Number,
\* Null or Method, member access for a name a Package, Class or Instance does
\* not hold, and the invocation of a String, Number, Null, Package or Instance.
C14_UnsupportedCapability == []UnsupportedRaises /\ [][UnsupportedChangesNothing]_vars

\* C14 witness: member access on an instance for a name it does not hold has
\* raised the error
C14_Witness ==
  \E f \in 1..Len(frames) :
    /\ UnsupportedAccess(frames[f])
    /\ frames[f].value.tag = "UserDefinedClassInstance"
    /\ frames[f].pc = "done"
    /\ Promise(f).value = Error("No value with key")


\* root-level statement k has been executed
Executed(k) ==
  frames[1].i > k \/ (frames[1].i = k /\ frames[1].pc \in {"visited", "done"})

\* the class declarations executed so far, each the last one of its name
Declared ==
  { k \in 1..Len(statements) :
      /\ statements[k].type = "ClassDeclaration"
      /\ Executed(k)
      /\ \A j \in (k + 1)..Len(statements) :
           (statements[j].type = "ClassDeclaration" /\ Executed(j)) =>
             statements[j].name.lexeme # statements[k].name.lexeme }

\* the declaration has a method of this name, static or not as asked
DeclaresMethod(declaration, static, name) ==
  \E j \in 1..Len(declaration.methods) :
    /\ declaration.methods[j].isStatic = static
    /\ declaration.methods[j].name.lexeme = name

MemberNames == {"a", "b", "c", "main", "$class"}

\* C15: after a class declaration is executed its name is bound, in the
\* environment of the declaration, to a Class value on which member access for
\* n succeeds exactly when the declaration has a static method n; on every
\* instance constructed from it member access for n succeeds exactly when the
\* declaration has a non-static method n or n is `$class`, which yields the
\* class.
C15_ClassDeclaration ==
  \A k \in Declared :
    LET declaration == statements[k]
        bound == get(envs, frames[1].env, declaration.name.lexeme)
    IN  /\ bound.ok
        /\ bound.value.tag = "UserDefinedClass"
        /\ MapHas(envs[frames[1].env].underlying, declaration.name.lexeme)
        /\ \A n \in MemberNames :
             dotAccess(bound.value, n).ok <=> DeclaresMethod(declaration, TRUE, n)
        /\ \A c \in 1..Len(frames) :
             (IsCall(c) /\ frames[c].value = bound.value /\ frames[c].pc = "done") =>
               /\ Promise(c).state = "fulfilled"
               /\ Promise(c).value.tag = "UserDefinedClassInstance"
               /\ \A n \in MemberNames :
                    dotAccess(Promise(c).value, n).ok <=>
                      (n = "$class" \/ DeclaresMethod(declaration, FALSE, n))
               /\ dotAccess(Promise(c).value, "$class") = Return(bound.value)

\* C15 witness: class A with a static a and a non-static b is declared and o
\* holds an instance of it: A.a and o.b resolve, A.b and o.a do not
C15_Witness ==
  /\ tokens = ClassSource(Method(TRUE, "a"), Method(FALSE, "b"))
  /\ \E e \in 1..Len(envs) :
       /\ MapHas(envs[e].underlying, "o")
       /\ MapGet(envs[e].underlying, "o").tag = "UserDefinedClassInstance"
       /\ dotAccess(MapGet(envs[e].underlying, "o"), "b").ok
       /\ ~dotAccess(MapGet(envs[e].underlying, "o"), "a").ok
       /\ dotAccess(MapGet(envs[e].underlying, "o"), "$class") = get(envs, 1, "A")
  /\ dotAccess(get(envs, 1, "A").value, "a").ok
  /\ ~dotAccess(get(envs, 1, "A").value, "b").ok


\* the entry-point statement, the last of the program, has been executed
EntryExecuted == Executed(Len(statements))

\* the names of the root environment, which has no parent, that are bound to a
\* user-defined class with a static user-defined method main, by position
EntryCandidates ==
  { k \in 1..Len(envs[1].underlying) :
      LET value == envs[1].underlying[k].value IN
      /\ value.tag = "UserDefinedClass"
      /\ MapHas(value.statics, "main")
      /\ MapGet(value.statics, "main").tag = "UserDefinedMethod" }

\* the methods main() itself has invoked
EntryCalls == { c \in 1..Len(frames) : IsCall(c) /\ frames[c].caller = 1 }

\* the static main methods of the classes bound in the root environment
MainMethods ==
  { MapGet(envs[1].underlying[k].value.statics, "main") : k \in EntryCandidates }

\* the first n body statements of the call that are expressions have been
\* started
BodyExecutedTo(c, n) ==
  \A k \in 1..n :
    frames[c].value.body[k].type = "ExpressionStatement" =>
      \E g \in 1..Len(frames) :
        /\ frames[g].caller = c
        /\ frames[g].chain = Chain(c, k)
        /\ frames[g].node = frames[c].value.body[k].expression

\* the body of the call has been executed: to its end, or up to an import
\* statement that raised an error, which ends the call
BodyExecuted(c) ==
  IF Promise(c).state = "fulfilled"
  THEN BodyExecutedTo(c, Len(frames[c].value.body))
  ELSE /\ Raised(c)
       /\ frames[c].i \in 1..Len(frames[c].value.body)
       /\ frames[c].value.body[frames[c].i].type = "Import"
       /\ BodyExecutedTo(c, frames[c].i - 1)

\* C16: where a user-defined class with a static user-defined method main is
\* bound, the entry-point statement invokes exactly one such method, the first
\* in the insertion order of the names, exactly once with the single argument
\* "Hello World"; a main of one parameter has it bound to the argument and its
\* body executed; no other main is invoked.
C16_EntryPoint ==
  /\ ~EntryExecuted => EntryCalls = {}
  /\ (EntryExecuted /\ EntryCandidates # {}) =>
       /\ Cardinality(EntryCalls) = 1
       /\ \A c \in EntryCalls :
            LET first == CHOOSE k \in EntryCandidates : \A j \in EntryCandidates : k <= j
                method == frames[c].value
            IN  /\ method = MapGet(envs[1].underlying[first].value.statics, "main")
                /\ frames[c].args = <<StringValue("Hello World")>>
                /\ frames[c].chain = Chain(1, Len(statements))
                /\ (Len(method.parameters) = 1 /\ frames[c].pc # "start") =>
                     /\ frames[c].env # 0
                     /\ get(envs, frames[c].env, method.parameters[1]) =
                          Return(StringValue("Hello World"))
                     /\ frames[c].pc = "done" => BodyExecuted(c)
  /\ \A c \in 1..Len(frames) :
       (IsUserCall(c) /\ frames[c].value \in MainMethods) => c \in EntryCalls
  /\ \A kindA, kindB \in MainKinds :
       tokens = EntrySource(kindA, kindB) =>
         /\ Bound("a", StringValue("Hello World")) => kindA = "static"
         /\ Bound("b", StringValue("Hello World")) =>
              (kindB = "static" /\ kindA # "static")

\* C16 witness: A and B both have a static main; the main of A, declared
\* first, has run with "Hello World" and that of B has not
C16_Witness ==
  /\ tokens = EntrySource("static", "static")
  /\ \E c \in EntryCalls : frames[c].pc = "done"
  /\ Bound("a", StringValue("Hello World"))
  /\ ~Bound("b", StringValue("Hello World"))

\* C17: where no visible name is bound to a user-defined class with a static
\* user-defined method main, the entry-point statement raises the
\* no-entry-point error and invokes no method, also when a class has a main
\* that is not static or the only class is the host's.
C17_NoEntryPoint ==
  /\ (EntryExecuted /\ EntryCandidates = {}) =>
       /\ EntryCalls = {}
       /\ \A c \in 1..Len(frames) : ~IsCall(c)
       /\ frames[1].pc = "done"
       /\ Promise(1).state = "rejected"
       /\ Promise(1).value = Error("No main method found")
  /\ (tokens \in EntryPrograms /\ EntryCandidates = {}) =>
       /\ ~Bound("a", StringValue("Hello World"))
       /\ ~Bound("b", StringValue("Hello World"))

\* C17 witness: the only main is not static and the error was raised
C17_Witness ==
  /\ tokens = EntrySource("instance", "none")
  /\ EntryExecuted
  /\ EntryCandidates = {}
  /\ Promise(1).value = Error("No main method found")


\* the activations working for the root-level statements before the entry point
RootActivations ==
  { g \in 1..Len(frames) :
      frames[g].chain.call = 1 /\ frames[g].chain.index < Len(statements) }

\* C18: the entry-point statement is executed last: the body of the entry
\* method starts only when every root-level statement before it has finished,
\* every expression evaluation and host call they started completed.
C18_EntryPointLast ==
  \A c \in EntryCalls :
    frames[c].pc # "start" =>
      \A g \in RootActivations :
        frames[g].pc = "done" /\ Promise(g).state # "pending"


\* an error has been raised: an async function threw, its promise is rejected
ErrorRaised == \E p \in 1..Len(promises) : promises[p].state = "rejected"

\* once an error is raised nothing goes on: no statement or host call starts
\* and no environment or output is written
NothingAfterError ==
  ErrorRaised =>
    /\ Len(frames') = Len(frames)
    /\ envs' = envs
    /\ output' = output
    /\ trace' = trace

\* C19: every runtime error is fatal: once the evaluation of a statement has
\* raised an error no later statement of the body or of the root list is
\* executed and no further environment write or host call happens.
C19_ErrorsFatal == [][NothingAfterError]_vars


\* the position of the first `*` of an import path, 0 if it has none
FirstStar(path) ==
  IF \E k \in 1..Len(path) : path[k] = "*"
  THEN CHOOSE k \in 1..Len(path) : path[k] = "*" /\ \A j \in 1..(k - 1) : path[j] # "*"
  ELSE 0

\* the Package the segments path[1..n] lead to from environment e, each segment
\* after the first looked up in the Package before it; Undefined if a segment
\* is not bound to a Package
RECURSIVE PackageAt(_, _, _)
PackageAt(e, path, n) ==
  LET found ==
        IF n = 1 THEN get(envs, e, path[1])
        ELSE IF PackageAt(e, path, n - 1) = Undefined THEN Throw("unresolved")
        ELSE IF MapHas(PackageAt(e, path, n - 1).underlying, path[n])
        THEN Return(MapGet(PackageAt(e, path, n - 1).underlying, path[n]))
        ELSE Throw("unresolved")
  IN  IF found.ok /\ found.value.tag = "Package" THEN found.value ELSE Undefined

\* the names environment e sees: its own and those of its ancestors
Visible(e) == { n \in LibraryNames \cup {"Main", "args", "z"} : Binders(e, n) # {} }

\* the names the wildcard at position star of the path copies, and their values
StarNames(e, path, star) ==
  IF star = 1 THEN Visible(e)
  ELSE { n \in LibraryNames : MapHas(PackageAt(e, path, star - 1).underlying, n) }
StarValue(e, path, star, n) ==
  IF star = 1 THEN get(envs, e, n).value
  ELSE MapGet(PackageAt(e, path, star - 1).underlying, n)

\* the running activation is about to execute an import statement
Importing(f) ==
  /\ frames[f].kind \in {"main", "callFunction"}
  /\ frames[f].pc = "visit"
  /\ frames[f].i <= Len(Body(frames[f]))
  /\ Body(frames[f])[frames[f].i].type = "Import"

\* the step of a wildcard import whose earlier segments resolve to Packages
\* binds the copied names in the importing environment and nothing else
ImportsAll ==
  \A f \in 1..Len(frames) :
    (stack # <<>> /\ f = stack[Len(stack)] /\ Importing(f)) =>
      LET path == Body(frames[f])[frames[f].i].path
          star == FirstStar(path)
          e == frames[f].env
      IN  (star # 0 /\ (star > 1 => PackageAt(e, path, star - 1) # Undefined)) =>
            /\ frames'[f].pc = "visited"
            /\ Len(envs') = Len(envs)
            /\ \A e2 \in 1..Len(envs) : e2 # e => envs'[e2] = envs[e2]
            /\ envs'[e].parent = envs[e].parent
            /\ \A n \in StarNames(e, path, star) :
                 /\ MapHas(envs'[e].underlying, n)
                 /\ MapGet(envs'[e].underlying, n) = StarValue(e, path, star, n)
            /\ \A k \in 1..Len(envs'[e].underlying) :
                 LET n == envs'[e].underlying[k].key IN
                 n \notin StarNames(e, path, star) =>
                   /\ MapHas(envs[e].underlying, n)
                   /\ MapGet(envs[e].underlying, n) = envs'[e].underlying[k].value
            /\ \A k \in 1..Len(envs[e].underlying) :
                 MapHas(envs'[e].underlying, envs[e].underlying[k].key)

\* C20: an import whose path reaches `*` after resolving every earlier segment
\* to a Package binds, in the environment where it runs, every name of the
\* Package reached (every visible name when `*` comes first) to the value it
\* has there, ignores the segments after `*` and leaves every other binding
\* unchanged.
C20_WildcardImport == [][ImportsAll]_vars

\* C20 witness: import java.util.*.foo; in the body of main has bound Scanner
\* in the environment of the call, beside z and the parameter
C20_Witness ==
  /\ tokens = MainClass(<<Id("String"), Id("z"), SEMICOLON>>
                        \o Import(<<"java", "util", "*", "foo">>))
  /\ \E c \in 1..Len(frames) :
       /\ IsUserCall(c)
       /\ frames[c].env # 0
       /\ MapKeys(envs[frames[c].env].underlying) = <<"args", "z", "Scanner">>
       /\ MapGet(envs[frames[c].env].underlying, "Scanner").tag = "InternalClass"
       /\ MapGet(envs[frames[c].env].underlying, "z") = NullValue


\* every segment of the path, the last included, leads to a Package
ResolvesToPackages(e, path) ==
  \A n \in 1..Len(path) : PackageAt(e, path, n) # Undefined

\* the step of an import without a wildcard leaves every environment as it
\* was; it ends the statement when every segment resolves to a Package and
\* raises an error in the activation that runs it otherwise
ImportsPath ==
  \A f \in 1..Len(frames) :
    (stack # <<>> /\ f = stack[Len(stack)] /\ Importing(f)) =>
      LET path == Body(frames[f])[frames[f].i].path
          e == frames[f].env
      IN  FirstStar(path) = 0 =>
            /\ envs' = envs
            /\ IF ResolvesToPackages(e, path)
               THEN /\ frames'[f].pc = "visited"
                    /\ promises'[frames[f].promise].state = "pending"
               ELSE /\ frames'[f].pc = "done"
                    /\ promises'[frames[f].promise].state = "rejected"
                    /\ promises'[frames[f].promise].value.tag = "Error"

\* C21: executing an import whose path has no `*` segment never adds or
\* changes a binding in any environment: it raises an error when a segment,
\* the final one included, is unbound or bound to a value that is not a
\* Package, and otherwise completes with every environment unchanged.
C21_PlainImport == [][ImportsPath]_vars

\* C21 witness: import java.util.Scanner; in the body of main has raised an
\* error, the class named by the last segment being no Package, and Scanner is
\* bound in no environment
C21_Witness ==
  /\ tokens = MainClass(<<Id("String"), Id("z"), SEMICOLON>>
                        \o Import(<<"java", "util", "Scanner">>))
  /\ \E c \in 1..Len(frames) :
       /\ IsUserCall(c)
       /\ Raised(c)
       /\ frames[c].i = 2
       /\ MapKeys(envs[frames[c].env].underlying) = <<"args", "z">>
  /\ \A e \in 1..Len(envs) : ~MapHas(envs[e].underlying, "Scanner")


\* activation f is about to bind the name of the variable declaration it runs
Declaring(f) ==
  /\ frames[f].kind \in {"main", "callFunction"}
  /\ frames[f].pc \in {"visit", "declare"}
  /\ frames[f].i <= Len(Body(frames[f]))
  /\ Body(frames[f])[frames[f].i].type = "VariableDeclaration"
  /\ frames[f].pc = "visit" => Body(frames[f])[frames[f].i].value.type = "none"

\* the step that ends a variable declaration binds the declared name in the
\* current environment, to Null without an initializer and to a runtime Value
\* otherwise, and leaves every other binding as it was
DeclaresValue ==
  \A f \in 1..Len(frames) :
    (stack # <<>> /\ f = stack[Len(stack)] /\ Declaring(f)) =>
      LET statement == Body(frames[f])[frames[f].i]
          name == statement.name.lexeme
          e == frames[f].env
      IN  /\ frames'[f].pc = "visited"
          /\ Len(envs') = Len(envs)
          /\ \A e2 \in 1..Len(envs) : e2 # e => envs'[e2] = envs[e2]
          /\ MapHas(envs'[e].underlying, name)
          /\ \A k \in 1..Len(envs'[e].underlying) :
               envs'[e].underlying[k].key # name =>
                 /\ MapHas(envs[e].underlying, envs'[e].underlying[k].key)
                 /\ MapGet(envs[e].underlying, envs'[e].underlying[k].key)
                      = envs'[e].underlying[k].value
          /\ IF statement.value.type = "none"
             THEN MapGet(envs'[e].underlying, name) = NullValue
             ELSE MapGet(envs'[e].underlying, name).tag \in Variants

\* C22: after a variable declaration has executed, the declared name is bound
\* in the current environment, and in no other, to Null when there is no
\* initializer and otherwise to the runtime Value the initializer evaluated to.
C22_VariableDeclaration == [][DeclaresValue]_vars


\* the evaluations started by activation f
Started(f) == { g \in 1..Len(frames) : frames[g].caller = f }

\* an assignment evaluates its right side at most once, and not at all when
\* its left side is no identifier
RightSideOnce ==
  \A f \in 1..Len(frames) :
    (frames[f].kind = "evaluate" /\ frames[f].node.type = "Assignment") =>
      /\ Cardinality(Started(f)) <= 1
      /\ \A g \in Started(f) :
           /\ frames[g].kind = "evaluate"
           /\ frames[g].node = frames[f].node.right
      /\ frames[f].node.left.type # "Identifier" => Started(f) = {}
      /\ frames[f].pc = "resume" => Cardinality(Started(f)) = 1

\* the steps of the evaluation of an assignment: with no identifier on the
\* left the first step raises an error and changes nothing; the step after the
\* right side has yielded a value binds the identifier to it in the current
\* environment, changes no other binding and yields that value
Assigns ==
  \A f \in 1..Len(frames) :
    (stack # <<>> /\ f = stack[Len(stack)] /\ frames[f].kind = "evaluate"
       /\ frames[f].node.type = "Assignment") =>
      LET left == frames[f].node.left
          e == frames[f].env
          result == promises'[frames[f].promise]
      IN  /\ (frames[f].pc = "start" /\ left.type # "Identifier") =>
                /\ envs' = envs
                /\ Len(frames') = Len(frames)
                /\ frames'[f].pc = "done"
                /\ result.state = "rejected"
                /\ result.value.tag = "Error"
          /\ frames[f].pc \in {"start", "await"} => envs' = envs
          /\ (frames[f].pc = "resume" /\ ~ret.ok) =>
                /\ envs' = envs
                /\ result.state = "rejected"
          /\ (frames[f].pc = "resume" /\ ret.ok) =>
                \A g \in Started(f) :
                  /\ Promise(g).state = "fulfilled"
                  /\ ret.value = Promise(g).value
                  /\ MapHas(envs'[e].underlying, left.identifier.lexeme)
                  /\ MapGet(envs'[e].underlying, left.identifier.lexeme) = Promise(g).value
                  /\ result.state = "fulfilled"
                  /\ result.value = Promise(g).value
                  /\ Len(envs') = Len(envs)
                  /\ \A e2 \in 1..Len(envs) : e2 # e => envs'[e2] = envs[e2]
                  /\ \A k \in 1..Len(envs'[e].underlying) :
                       envs'[e].underlying[k].key # left.identifier.lexeme =>
                         /\ MapHas(envs[e].underlying, envs'[e].underlying[k].key)
                         /\ MapGet(envs[e].underlying, envs'[e].underlying[k].key)
                              = envs'[e].underlying[k].value

\* C23: evaluating an assignment whose left side is an identifier evaluates the
\* right side once, binds the identifier to that value in the current
\* environment and yields that same value (a = b = v binds both names to v);
\* with any other left side (dotted access, call) the evaluation fails before
\* the right side is evaluated and no environment is changed.
C23_Assignment == []RightSideOnce /\ [][Assigns]_vars

\* C23 witness: in  a = b = "v"; java.util = x = "1";  both a and b are bound
\* to "v", the assignment to java.util has raised an error without starting an
\* evaluation, and x is bound nowhere
C23_Witness ==
  /\ Bound("a", StringValue("v"))
  /\ Bound("b", StringValue("v"))
  /\ \E f \in 1..Len(frames) :
       /\ frames[f].kind = "evaluate"
       /\ frames[f].node.type = "Assignment"
       /\ frames[f].node.left.type = "DotAccess"
       /\ frames[f].node.right.type = "Assignment"
       /\ Raised(f)
       /\ Started(f) = {}
  /\ \A e \in 1..Len(envs) : ~MapHas(envs[e].underlying, "x")


\* C24: every MethodDeclaration the parser produces has pairwise distinct
\* parameter names: a parameter list that repeats a name is not turned into a
\* method declaration.
C24_DistinctParameterNames ==
  (lastStatement.outcome.ok /\ lastStatement.outcome.node.type = "ClassDeclaration") =>
    \A n \in 1..Len(lastStatement.outcome.node.methods) :
      LET parameters == lastStatement.outcome.node.methods[n].parameters IN
      \A j, k \in 1..Len(parameters) :
        j # k => parameters[j].name.lexeme # parameters[k].name.lexeme


\* wherever in the stream the speculative attempt begins, a failed attempt
\* returns with the cursor where it began and raises nothing, whatever index
\* the failure was raised at; an attempt that succeeds leaves the cursor after
\* the declaration
AttemptRestoresCursor ==
  \A i \in 0..(Len(tokens) - 1) :
    LET attempt == parseVariableDeclaration(tokens, i)
        tried == tryParseVariableDeclaration(tokens, i)
    IN  /\ attempt.idx >= i
        /\ attempt.ok => (tried = attempt /\ tried.idx > i)
        /\ ~attempt.ok => (tried.ok /\ tried.idx = i /\ tried.node = NoStatement)

\* an error raised outside the attempt leaves parseRootLevel: nothing is
\* returned, and the function of the whole stream raises the same error
ErrorPropagates ==
  /\ (lastStatement # NoCall /\ ~lastStatement.outcome.ok) =>
        /\ parserState = "thrown"
        /\ parseRootLevel(tokens) = lastStatement.outcome
  /\ parserState = "thrown" =>
        /\ lastStatement # NoCall
        /\ ~lastStatement.outcome.ok
        /\ ~parseRootLevel(tokens).ok
  /\ parserState = "returned" =>
        /\ parseRootLevel(tokens).ok
        /\ parseRootLevel(tokens).node.list = statements

\* the cursor never decreases from one statement to the next, and nothing
\* happens after an error
CursorAdvances ==
  /\ currentTokenIndex' >= currentTokenIndex
  /\ parserState # "thrown"
  /\ parserState' = "returned" => statements' = statements

\* C25: the token cursor never decreases except in the speculative
\* variable-declaration attempt: whenever that attempt fails, at whatever point,
\* the cursor is set back to the index it had when the attempt began and the
\* failure is not propagated; a mismatch raised anywhere else propagates out of
\* parseRootLevel, which then returns no statements.
C25_CursorRollback ==
  []AttemptRestoresCursor /\ []ErrorPropagates /\ [][CursorAdvances]_vars

\* C25 witness: an attempt that began at the start of the stream failed after
\* the cursor had moved on, and the statement was then parsed from the start as
\* an expression statement
C25_Witness ==
  /\ lastStatement # NoCall
  /\ lastStatement.from = 0
  /\ ~parseVariableDeclaration(tokens, 0).ok
  /\ parseVariableDeclaration(tokens, 0).idx > 0
  /\ lastStatement.outcome.ok
  /\ lastStatement.outcome.node.type = "ExpressionStatement"
  /\ lastStatement.outcome = parseExpressionStatement(tokens, 0)


\* a call made at index i advanced the cursor by at least one token, to no
\* further than the end of the stream, or raised an error
Advanced(i, result) ==
  IF result.ok THEN i < result.idx /\ result.idx <= Len(tokens)
  ELSE i <= result.idx /\ result.idx <= Len(tokens)

\* what one iteration of each parsing loop calls, at every index of the
\* stream: a statement (root and method body), a method declaration (class),
\* a type (parameters and array brackets), an expression (arguments), a factor
\* and an endpoint (operator chains), a token (import segments)
IterationsAdvance ==
  \A i \in 0..Len(tokens) :
    /\ i < Len(tokens) => Advanced(i, parseStatement(tokens, i))
    /\ Advanced(i, parseMethodDeclaration(tokens, i))
    /\ Advanced(i, parseType(tokens, i))
    /\ Advanced(i, parseExpression(tokens, i))
    /\ Advanced(i, parseFactor(tokens, i))
    /\ Advanced(i, parseExpressionEndpoint(tokens, i))
    /\ Advanced(i, expect(tokens, i, {"IDENTIFIER", "STAR"}))

\* parseRootLevel returns only with the cursor at the number of tokens, and
\* the cursor never passes it
ReturnsAtEnd ==
  /\ currentTokenIndex <= Len(tokens)
  /\ Len(statements) <= currentTokenIndex
  /\ parserState = "returned" => currentTokenIndex = Len(tokens)
  /\ parseRootLevel(tokens).ok => parseRootLevel(tokens).idx = Len(tokens)

\* every step of parseRootLevel moves the cursor forward or ends the loop, so
\* that the loop runs at most as many times as there are tokens
LoopProgress ==
  \/ parserState = "parsing" /\ parserState' = "parsing"
       /\ currentTokenIndex' > currentTokenIndex
  \/ parserState = "parsing" /\ parserState' \in {"returned", "thrown"}

\* C26: Parser.parseRootLevel terminates on every finite token stream: every
\* iteration of each parsing loop advances the cursor by at least one token or
\* raises an error, and a normal return happens only with the cursor equal to
\* the number of tokens.
C26_ParserTerminates ==
  /\ []IterationsAdvance
  /\ []ReturnsAtEnd
  /\ [][LoopProgress]_vars

\* C26 witness: parseRootLevel has returned two statements or more, the
\* cursor at the end of the stream
C26_Witness ==
  /\ parserState = "returned"
  /\ Len(statements) >= 2
  /\ Len(tokens) >= 6
  /\ currentTokenIndex = Len(tokens)


\* activation g has looked a name up for statement j of the body of call c
LookedUp(g, c, j) ==
  /\ frames[g].kind = "evaluate"
  /\ frames[g].node.type = "Identifier"
  /\ frames[g].pc = "done"
  /\ frames[g].chain = Chain(c, j)

\* activation h is to write a name for statement i of the body of call c
Writes(h, c, i) ==
  /\ frames[h].kind = "evaluate"
  /\ frames[h].node.type = "Assignment"
  /\ frames[h].node.left.type = "Identifier"
  /\ frames[h].chain = Chain(c, i)

\* C27: within one method body a statement that reads a name observes the
\* binding written by an assignment of any earlier statement of that body: the
\* lookup made for a statement never happens before the writes of the
\* statements before it, however deep the expression assigned.
C27_ReadsSeeEarlierWrites ==
  \A c, g, h \in 1..Len(frames) :
    \A j \in 1..MaxStmtLen : \A i \in 1..(j - 1) :
      (IsUserCall(c) /\ LookedUp(g, c, j) /\ Writes(h, c, i)) =>
        frames[h].pc = "done"


\* the line the k-th call of getInput was resolved with, once it is resolved
Resolved(k) == promises[listeners[k]].state = "fulfilled"
LineRead(k) == promises[listeners[k]].value.str

\* C28: each line delivered on standard input resolves at most one
\* input-reading call: one delivered line is never returned to two reads, and
\* k reads consume k distinct lines in the order the reads were started.
C28_OneLinePerRead ==
  /\ \A k \in 1..Len(listeners) : Resolved(k) => LineRead(k) = InputLine(k)
  /\ \A j, k \in 1..Len(listeners) :
       (j # k /\ Resolved(j) /\ Resolved(k)) => LineRead(j) # LineRead(k)


\* C29: a binary expression whose left operand is a String produces a
\* concatenation only for the `+` operator; with `-`, `*`, `/` or `%` it fails
\* with a type error instead of returning a String (the right operand a
\* literal, whose evaluation raises nothing).
C29_StringOperators ==
  \A f \in 1..Len(frames) :
    (BinaryDone(f) /\ frames[f].node.left.type = "Literal"
       /\ frames[f].node.left.value.tag = "String"
       /\ frames[f].node.right.type = "Literal") =>
      IF frames[f].node.operator = "PLUS"
      THEN /\ Promise(f).state = "fulfilled"
           /\ Promise(f).value.tag = "String"
      ELSE /\ Promise(f).state = "rejected"
           /\ Promise(f).value.tag = "Error"


\* every iteration of the loop of lex() and of the loop of string() leaves the
\* character index greater than it found it
IndexIncreases ==
  iterations' # iterations => currentCharacterIndex' > currentCharacterIndex

\* the loops run while there is input: the index never passes its length
IndexInInput == currentCharacterIndex <= Len(input)

\* C30: Lexer.lex terminates on every finite input string, returning a token
\* list or raising an error: the character index strictly increases on every
\* iteration of the main loop and of the string-literal loop, including for a
\* character that is neither whitespace, alphanumeric, a quote nor a known
\* symbol and for a string literal with no closing quote.
C30_LexerTerminates == [][IndexIncreases]_vars /\ []IndexInInput

============================================================================
